---- MODULE Spec2Model ----
(***************************************************************************)
(* SiteSage backend: the report pipeline (services/analyzer.py), the       *)
(* detached Lighthouse enrichment job, the report read path                *)
(* (api/routes.py get_report) and the guest-report retention sweep         *)
(* (services/cleanup.py), as one state machine over the reports table.     *)
(* SpecLive is the pipeline with its background tasks scheduled fairly.    *)
(* The score calculator, the prober and the metric extractors              *)
(* (services/crawler.py), the optional authentication (firebase_auth.py),  *)
(* the safe Lighthouse fetch (services/pagespeed.py), the flattening of    *)
(* suggestions and the rate limiter (middleware/rate_limit.py) are also    *)
(* run on their own, each under a specification of its own: SpecScore,     *)
(* SpecProbe, SpecExtract, SpecAuth, SpecFetch, SpecFlatten, SpecLimiter.  *)
(*                                                                         *)
(* The reports table is the table the alembic revisions under              *)
(* alembic/versions build: the columns analyzer.py reads and writes,       *)
(* lighthouse_status included.  Python values are modelled as follows:     *)
(*   None / SQL NULL        the empty tuple <<>>                           *)
(*   a present value v      the one-element tuple <<v>>                    *)
(*   a str                  a tuple of text fragments (concatenation is \o)*)
(*   a JSON value           a record with a type tag t                     *)
(***************************************************************************)
EXTENDS Integers, Sequences, FiniteSets, TLC

\* ------------------------------------------------------------------ bounds
MaxRequests == 2       \* analyze requests over a run
MaxTime     == 1       \* clock ticks (hours) over a run
MaxHours    == 0       \* largest retention threshold a sweep is called with
MaxImages   == 10      \* images on a page given to the score calculator
MaxH1       == 2       \* H1 headings on such a page
MaxH2       == 1       \* H2 headings on such a page
MaxTitle    == 3       \* characters in the title text of a parsed document
MaxAnchors  == 2       \* anchors with an href in a parsed document
MaxSuggestions == 2    \* elements of a suggestion list given to the flattening
MaxPerMinute   == 2    \* the limit of requests per minute (config.py 32 has 30)
MaxCalls       == 5    \* requests the rate limiter sees
ClockStep      == 30   \* seconds between two readings of the limiter's clock
MaxClock       == 120  \* the last reading of the limiter's clock, in seconds

Requests   == 1..MaxRequests
Principals == {1, 2}                 \* users.id of two registered principals
Thresholds == 0..MaxHours            \* retention_hours arguments

\* ------------------------------------------------------------ Python values
None      == <<>>
Some(v)   == <<v>>
IsNone(o) == o = <<>>
Val(o)    == o[1]

\* Python's "not x" for an Optional[str]: None and "" are both false values.
Falsy(o) == IsNone(o) \/ Val(o) = <<>>

\* The request's caller: current_user is a models.User or None.
Callers == {None} \cup {Some(p) : p \in Principals}

\* The callers that submit URLs: a guest and the first principal.  The second
\* principal only reads.
Submitters == {None, Some(1)}

\* A URL is a str, here the tuple of its parts: "https://example.com/" is
\* <<"https", ":", "//", "example.com", "/">>.
GoodUrl == <<"https", ":", "//", "example.com", "/">>
BadUrl  == <<"example.com", "/page">>     \* "example.com/page": no scheme, no netloc
Urls    == {GoodUrl, BadUrl}

\* urllib.parse.urlparse, as far as crawl_website reads it (crawler.py 43-44):
\* the scheme is what stands before a ":", the netloc what follows a "//" up
\* to the path.
PathParts == {"/", "/page", "/about", "/x"}
urlparse(url) ==
    LET scheme == IF Len(url) >= 2 /\ url[2] = ":" THEN url[1] ELSE ""
        rest   == IF scheme # "" THEN SubSeq(url, 3, Len(url)) ELSE url
        netloc == IF Len(rest) >= 2 /\ rest[1] = "//" /\ rest[2] \notin PathParts
                    THEN rest[2] ELSE ""
    IN  [scheme |-> scheme, netloc |-> netloc]

\* A variant of HasSchemeAndHost that asks for the scheme only; C17 tells it
\* from HasSchemeAndHost.
HasSchemeAndHost_scheme_only(url) == urlparse(url).scheme # ""

\* crawl_website, validation (crawler.py 43-45): scheme and netloc present.
HasSchemeAndHost(url) == urlparse(url).scheme # "" /\ urlparse(url).netloc # ""

\* What the network does to the primary GET (crawler.py 59-77, 91-93); a URL
\* that fails the validation is never requested.
FetchOutcomes == {"ok", "bad_status", "client_error", "timeout", "unexpected"}
NetworkFor(url) == IF HasSchemeAndHost(url) THEN FetchOutcomes ELSE {"not_requested"}

\* crawl_website: the metrics dictionary of a crawled page (crawler.py 80-87).
CrawlData(url) ==
    [url |-> url, title |-> <<"Example Domain">>, seo_score |-> 65, load_time |-> 12]

\* A variant of crawl_website that lets an unexpected exception through
\* unwrapped; C2 tells it from crawl_website.
crawl_website_unwrapped(url, net) ==
    IF ~HasSchemeAndHost(url)
      THEN [ok |-> FALSE, error |-> "CrawlerException", cause |-> "invalid_url", data |-> None]
    ELSE IF net = "unexpected"
      THEN [ok |-> FALSE, error |-> "Exception", cause |-> net, data |-> None]
    ELSE IF net # "ok"
      THEN [ok |-> FALSE, error |-> "CrawlerException", cause |-> net, data |-> None]
    ELSE [ok |-> TRUE, error |-> "", cause |-> "", data |-> Some(CrawlData(url))]

\* crawl_website as a whole: "ok" with the metrics, or a CrawlerException and
\* its cause.  Every failure leaves the function as CrawlerException
\* (crawler.py 89-93).
crawl_website(url, net) ==
    IF ~HasSchemeAndHost(url)
      THEN [ok |-> FALSE, error |-> "CrawlerException", cause |-> "invalid_url", data |-> None]
    ELSE IF net # "ok"
      THEN [ok |-> FALSE, error |-> "CrawlerException", cause |-> net, data |-> None]
    ELSE [ok |-> TRUE, error |-> "", cause |-> "", data |-> Some(CrawlData(url))]

\* What the network answers to the primary GET: a response with a status and
\* a body that response.text() can or cannot decode, a client error, or the
\* timeout.
Statuses == {200, 201, 204, 404, 500}
GetOutcomes ==
    { [kind |-> "response", status |-> st, readable |-> rd] :
        st \in Statuses, rd \in BOOLEAN }
    \cup { [kind |-> k, status |-> 0, readable |-> FALSE] : k \in {"client_error", "timeout"} }

\* How session.get ends inside crawl_website (crawler.py 60-77): a status
\* other than 200 raises before the body is read; reading the body can raise
\* what is neither a ClientError nor a timeout.
GetOutcome(get) ==
    IF get.kind # "response" THEN get.kind
    ELSE IF get.status # 200 THEN "bad_status"
    ELSE IF ~get.readable THEN "unexpected"
    ELSE "ok"

\* What the network answers to a HEAD request, and _check_url_exists
\* (crawler.py 277-293): True for a 200, False for anything else.
HeadOutcomes == { [kind |-> "response", status |-> 200],
                  [kind |-> "response", status |-> 404],
                  [kind |-> "error", status |-> 0] }
check_url_exists(head) == head.kind = "response" /\ head.status = 200

\* The URLs the prober is exercised on: with and without scheme and host.
ProbeUrls ==
    { GoodUrl, BadUrl,
      <<"//", "example.com", "/page">>,        \* "//example.com/page"
      <<"https", ":", "//", "/page">>,         \* "https:///page"
      <<"https", ":", "example.com">>,         \* "https:example.com"
      <<>> }

\* ------------------------------------------------------ HTML Metric Extractor
\* str.strip(): leading and trailing whitespace removed.  A str is a tuple of
\* its parts, a part " " being whitespace.
RECURSIVE lstrip(_)
lstrip(s) == IF s # <<>> /\ Head(s) = " " THEN lstrip(Tail(s)) ELSE s
RECURSIVE rstrip(_)
rstrip(s) == IF s # <<>> /\ s[Len(s)] = " " THEN rstrip(SubSeq(s, 1, Len(s) - 1)) ELSE s
strip(s)  == rstrip(lstrip(s))

\* The first title element of a document: None when there is none, else the
\* element's .string, which is None for an element without content and the
\* text otherwise.
TitleTexts == UNION { [1..n -> {" ", "x"}] : n \in 0..MaxTitle }
TitleTags  == {None, Some(None)} \cup { Some(Some(t)) : t \in TitleTexts }

\* A variant of extracted_title that skips the stripping; C22 tells it from
\* extracted_title.
extracted_title_unstripped(title_tag) ==
    LET title == IF ~IsNone(title_tag) /\ ~IsNone(Val(title_tag))
                   THEN Some(Val(Val(title_tag))) ELSE None
    IN  IF Falsy(title) THEN <<"No Title Found">> ELSE Val(title)

\* _extract_seo_metrics, the title (crawler.py 98-100, 133):
\* title_tag.string.strip() if title_tag and title_tag.string else None, and
\* title or "No Title Found" in the result.
extracted_title(title_tag) ==
    LET title == IF ~IsNone(title_tag) /\ ~IsNone(Val(title_tag))
                   THEN Some(strip(Val(Val(title_tag)))) ELSE None
    IN  IF Falsy(title) THEN <<"No Title Found">> ELSE Val(title)

\* The href attributes of the anchors that have one, on a page whose URL is
\* GoodUrl.
Hrefs ==
    { <<>>, <<" ">>,
      <<"#", "section">>, <<" ", "#", "section">>,
      <<"javascript", ":", "void(0)">>,
      <<"mailto", ":", "a@b.com">>,
      <<"tel", ":", "123">>,
      <<"/about">>,
      <<"//", "example.com", "/x">>,
      <<"https", ":", "//", "example.com", "/about">>,
      <<"https", ":", "//", "EXAMPLE.com", "/about">>,
      <<"https", ":", "//", "example.com:443", "/about">>,
      <<"https", ":", "//", "other.com", "/x">> }

startswith(s, prefix) == Len(s) >= Len(prefix) /\ SubSeq(s, 1, Len(prefix)) = prefix

\* urllib.parse.urljoin as far as the netloc of its result goes: a reference
\* with another scheme stands for itself, one with a netloc keeps it, and any
\* other is resolved on the base's netloc.
urljoin(base, href) ==
    LET b == urlparse(base)
        h == urlparse(href)
    IN  IF h.scheme # "" /\ h.scheme # b.scheme THEN href
        ELSE IF h.netloc # "" THEN <<b.scheme, ":", "//", h.netloc>>
        ELSE <<b.scheme, ":", "//", b.netloc>>

\* The body of the loop for one href (crawler.py 230-246): "skip",
\* "internal" or "external".
classify(url, raw) ==
    LET href == strip(raw) IN
    IF href = <<>> \/ startswith(href, <<"#">>)
       \/ startswith(href, <<"javascript", ":">>) \/ startswith(href, <<"mailto", ":">>)
      THEN "skip"
    ELSE LET link_domain == urlparse(urljoin(url, href))
         IN  IF link_domain.netloc = urlparse(url).netloc \/ link_domain.netloc = ""
               THEN "internal"
               ELSE "external"

\* The loop over the anchors with an href (crawler.py 226-246).
RECURSIVE count_links(_, _, _)
count_links(url, hrefs, counts) ==
    IF hrefs = <<>> THEN counts
    ELSE LET c == classify(url, Head(hrefs))
         IN  count_links(url, Tail(hrefs),
                 [ internal_links_count |-> counts.internal_links_count
                                              + (IF c = "internal" THEN 1 ELSE 0),
                   external_links_count |-> counts.external_links_count
                                              + (IF c = "external" THEN 1 ELSE 0) ])

\* The documents the extractors are exercised on.
Anchors == UNION { [1..n -> Hrefs] : n \in 0..MaxAnchors }

NoPage ==
    [ pc |-> "none", title_tag |-> None, hrefs |-> <<>>, title |-> <<>>,
      internal_links_count |-> 0, external_links_count |-> 0 ]

\* ---------------------------------------------------------- Score Calculator
\* _calculate_seo_score (crawler.py 145-206).  A title or a meta description
\* is None or a str, here a tuple of characters; only its emptiness and its
\* length are read.
Str(n) == [i \in 1..n |-> "x"]

\* A variant of TitleDeduction whose short-title branch takes length 30 too;
\* C14 tells it from TitleDeduction.
TitleDeduction_inclusive(title) ==
    IF Falsy(title) THEN 15
    ELSE IF Len(Val(title)) <= 30 THEN 5
    ELSE IF Len(Val(title)) > 60 THEN 5
    ELSE 0

\* Title checks (crawler.py 161-167).
TitleDeduction(title) ==
    IF Falsy(title) THEN 15
    ELSE IF Len(Val(title)) < 30 THEN 5
    ELSE IF Len(Val(title)) > 60 THEN 5
    ELSE 0

\* Meta description checks (crawler.py 169-175).
MetaDeduction(meta_description) ==
    IF Falsy(meta_description) THEN 20
    ELSE IF Len(Val(meta_description)) < 120 THEN 5
    ELSE IF Len(Val(meta_description)) > 160 THEN 5
    ELSE 0

\* A variant of H1Deduction that takes 10 for a page without H1; C15 tells
\* it from H1Deduction.
H1Deduction_flat(h1_count) ==
    IF h1_count = 0 THEN 10
    ELSE IF h1_count > 1 THEN 10
    ELSE 0

\* H1 checks (crawler.py 177-181).
H1Deduction(h1_count) ==
    IF h1_count = 0 THEN 15
    ELSE IF h1_count > 1 THEN 10
    ELSE 0

\* H2 checks (crawler.py 183-185).
H2Deduction(h2_count) == IF h2_count = 0 THEN 5 ELSE 0

\* A variant of AltDeduction whose top step starts at 50%; C16 tells it from
\* AltDeduction.
AltDeduction_inclusive(missing_alt_count, image_count) ==
    IF image_count > 0
      THEN IF missing_alt_count * 100 >= 50 * image_count THEN 15
           ELSE IF missing_alt_count * 100 > 20 * image_count THEN 10
           ELSE IF missing_alt_count * 100 > 0 THEN 5
           ELSE 0
      ELSE 0

\* Image alt tags (crawler.py 187-195): alt_percentage is
\* (missing_alt_count / image_count) * 100 in floating point; its comparisons
\* with 50, 20 and 0 agree with the exact ratio's (the quotients 1/2 and 1/5
\* times 100 round to 50.0 and 20.0), so they are taken on integers.
AltDeduction(missing_alt_count, image_count) ==
    IF image_count > 0
      THEN IF missing_alt_count * 100 > 50 * image_count THEN 15
           ELSE IF missing_alt_count * 100 > 20 * image_count THEN 10
           ELSE IF missing_alt_count * 100 > 0 THEN 5
           ELSE 0
      ELSE 0

\* Mobile optimization (crawler.py 197-199) and canonical URL (201-203).
ViewportDeduction(has_meta_viewport) == IF ~has_meta_viewport THEN 10 ELSE 0
CanonicalDeduction(has_canonical)    == IF ~has_canonical THEN 5 ELSE 0

\* The blocks of the function body, in the order the code has them.
CategoryOrder == <<"title", "meta", "h1", "h2", "alt", "viewport", "canonical">>

\* The deduction one block takes, from the arguments s of the call.
Deduction(category, s) ==
    CASE category = "title"     -> TitleDeduction(s.title)
      [] category = "meta"      -> MetaDeduction(s.meta_description)
      [] category = "h1"        -> H1Deduction(s.h1_count)
      [] category = "h2"        -> H2Deduction(s.h2_count)
      [] category = "alt"       -> AltDeduction(s.missing_alt_count, s.image_count)
      [] category = "viewport"  -> ViewportDeduction(s.has_meta_viewport)
      [] category = "canonical" -> CanonicalDeduction(s.has_canonical)

\* A variant of Step whose deduction is a percentage of the running score;
\* C13 tells it from Step.
Step_compounding(category, s, score) == score - (score * Deduction(category, s)) \div 100

\* One block: "score -= n" on the running score.
Step(category, s, score) == score - Deduction(category, s)

\* The blocks of a sequence of categories, one after the other.
RECURSIVE Deduct(_, _, _)
Deduct(order, s, score) ==
    IF order = <<>> THEN score
    ELSE Deduct(Tail(order), s, Step(Head(order), s, score))

\* A variant of Clamp whose lower end is 20; C29 tells it from the code's
\* clamp, which no score reaches.
Clamp_from_20(score) == IF score < 20 THEN 20 ELSE IF score > 100 THEN 100 ELSE score

\* max(0, min(100, score)) (crawler.py 206).
Clamp(score) == IF score < 0 THEN 0 ELSE IF score > 100 THEN 100 ELSE score

Args(title, meta_description, h1_count, h2_count, missing_alt_count, image_count, has_meta_viewport, has_canonical) ==
    [ title |-> title, meta_description |-> meta_description,
      h1_count |-> h1_count, h2_count |-> h2_count,
      missing_alt_count |-> missing_alt_count, image_count |-> image_count,
      has_meta_viewport |-> has_meta_viewport, has_canonical |-> has_canonical ]

\* A variant of _calculate_seo_score that takes every deduction twice and
\* returns the score unclamped; C12 tells it from calculate_seo_score.
calculate_seo_score_doubled(title, meta_description, h1_count, h2_count, missing_alt_count, image_count, has_meta_viewport, has_canonical) ==
    LET s == Args(title, meta_description, h1_count, h2_count, missing_alt_count,
                  image_count, has_meta_viewport, has_canonical)
    IN  Deduct(CategoryOrder, s, Deduct(CategoryOrder, s, 100))

\* _calculate_seo_score (crawler.py 145-206): start at 100, run the blocks,
\* clamp.
calculate_seo_score(title, meta_description, h1_count, h2_count, missing_alt_count, image_count, has_meta_viewport, has_canonical) ==
    LET s == Args(title, meta_description, h1_count, h2_count, missing_alt_count,
                  image_count, has_meta_viewport, has_canonical)
    IN  Clamp(Deduct(CategoryOrder, s, 100))

\* The calls the calculator is checked on: titles and descriptions around
\* the lengths the code compares with, heading counts, and every pair of
\* image counts up to MaxImages.
TitleLens == {0, 1, 29, 30, 60, 61}
MetaLens  == {0, 1, 119, 120, 160, 161}
Titles    == {None} \cup {Some(Str(n)) : n \in TitleLens}
Metas     == {None} \cup {Some(Str(n)) : n \in MetaLens}
ScoreCalls ==
    { a \in { Args(t, m, h1, h2, missing, images, vp, ca) :
               t \in Titles, m \in Metas, h1 \in 0..MaxH1, h2 \in 0..MaxH2,
               missing \in 0..MaxImages, images \in 0..MaxImages,
               vp \in BOOLEAN, ca \in BOOLEAN } :
        a.missing_alt_count <= a.image_count }

\* ------------------------------------------------------- Insight Generator
\* JSON scalars inside a suggestion object.
JStr(s)  == [t |-> "str", s |-> s]
JNull    == [t |-> "null", s |-> <<>>]

\* A suggestion list element: a plain string or a {title, description} object
\* whose keys may be missing (None) or hold a scalar.
SStr(s)       == [t |-> "str",  s |-> s,    title |-> None, description |-> None]
SDict(ti, de) == [t |-> "dict", s |-> <<>>, title |-> ti,   description |-> de]

\* The value under the "suggestions" key.
JList(items) == [t |-> "list", items |-> items]
JNotIter     == [t |-> "null", items |-> <<>>]

\* A parsed reply: a JSON object with optional keys, or another JSON value.
Reply(summary, suggestions) == [t |-> "dict", summary |-> summary, suggestions |-> suggestions]
ReplyList                   == [t |-> "list", summary |-> None, suggestions |-> None]

\* What the language model call can produce when there is an API key
\* (ai_agent.py 38-52): an exception of the chain, text that is not JSON, or
\* text that parses.
LlmOutcomes ==
    { [kind |-> "raises",   json |-> ReplyList],
      [kind |-> "not_json", json |-> ReplyList],
      [kind |-> "json",
       json |-> Reply(Some(<<"Healthy site.">>),
                      Some(JList(<< SDict(Some(JStr(<<"Title">>)), Some(JStr(<<"Shorten it">>))),
                                    SStr(<<"Add alt text">>) >>)))],
      [kind |-> "json", json |-> Reply(Some(<<"Healthy site.">>), Some(JNotIter))],
      [kind |-> "json", json |-> ReplyList] }

\* analyze_with_ai (ai_agent.py 30-59): never raises; a missing key and every
\* exception give a placeholder object, a parsed reply is returned as parsed.
analyze_with_ai(api_key, llm) ==
    CASE IsNone(api_key) ->
           Reply(Some(<<"AI Analysis Unavailable (Missing Google API Key)">>),
                 Some(JList(<< SStr(<<"Add GOOGLE_API_KEY to .env file">>) >>)))
      [] llm.kind \in {"raises", "not_json"} ->
           Reply(Some(<<"Error generating AI insights.">>),
                 Some(JList(<< SStr(<<"AI Error: ", "<exception text>">>) >>)))
      [] OTHER -> llm.json

\* str(x) of a JSON scalar, and Python truthiness of a dict.get result.
PyStr(o)  == IF IsNone(o) THEN <<>> ELSE IF Val(o).t = "null" THEN <<"None">> ELSE Val(o).s
Truthy(o) == ~IsNone(o) /\ Val(o).t = "str" /\ Val(o).s # <<>>

\* One element of _process_ai_suggestions (analyzer.py 118-125).  dict.get
\* with default '' gives the stored value when the key is present.
FlattenSuggestion(x) ==
    IF x.t = "dict"
      THEN IF Truthy(x.title)
             THEN JStr(PyStr(x.title) \o <<": ">> \o PyStr(x.description))
             ELSE IF IsNone(x.description) THEN JStr(<<>>) ELSE Val(x.description)
      ELSE JStr(x.s)

\* _process_ai_suggestions (analyzer.py 106-126).
process_ai_suggestions(items) == [i \in 1..Len(items) |-> FlattenSuggestion(items[i])]

\* The elements a parsed reply's suggestion list can hold: a string, or an
\* object whose title and description are each missing, an empty string, a
\* string, or (the description) JSON null.
SuggestionItems ==
    { SStr(s) : s \in { <<>>, <<"Add alt text">> } }
      \cup { SDict(ti, de) :
               ti \in { None, Some(JStr(<<>>)), Some(JStr(<<"Title">>)) },
               de \in { None, Some(JStr(<<>>)), Some(JStr(<<"Shorten it">>)), Some(JNull) } }
SuggestionLists == UNION { [1..n -> SuggestionItems] : n \in 0..MaxSuggestions }

NoFlat == [ pc |-> "none", suggestions |-> <<>>, processed |-> <<>> ]

\* Step 3 of analyze_url_service (analyzer.py 78): ai_result.get('suggestions',
\* []) and the loop over it.  A reply that is no object has no .get
\* (AttributeError); a suggestions value that is not iterable breaks the
\* loop (TypeError).  Neither is inside a try block.
ProcessStep(ai) ==
    IF ai.t # "dict"
      THEN [ok |-> FALSE, error |-> "AttributeError", suggestions |-> <<>>]
    ELSE IF IsNone(ai.suggestions)
      THEN [ok |-> TRUE, error |-> "", suggestions |-> <<>>]
    ELSE IF Val(ai.suggestions).t # "list"
      THEN [ok |-> FALSE, error |-> "TypeError", suggestions |-> <<>>]
    ELSE [ok |-> TRUE, error |-> "",
          suggestions |-> process_ai_suggestions(Val(ai.suggestions).items)]

\* ai_result.get('summary', 'AI Analysis Unavailable') (analyzer.py 173).
SummaryOf(ai) == IF IsNone(ai.summary) THEN <<"AI Analysis Unavailable">> ELSE Val(ai.summary)

\* ------------------------------------------------ rate limiting middleware
\* RateLimitMiddleware (middleware/rate_limit.py 14-52): an in-memory list of
\* admission times per client address.
requests_per_minute == MaxPerMinute
Clients      == {"10.0.0.1", "10.0.0.2"}
ExemptPaths  == {"/health", "/docs", "/redoc", "/openapi.json", "/"}
LimiterPaths == ExemptPaths \cup {"/api/v1/analyze"}

\* The times of the last minute (rate_limit.py 35-38).
clean(times, current_time) == SelectSeq(times, LAMBDA req_time : current_time - req_time < 60)

\* A variant of over_limit that admits one request more; C30 tells it from
\* the code's test.
over_limit_strict(n) == n > requests_per_minute

\* The test of rate_limit.py 41.
over_limit(n) == n >= requests_per_minute

\* dispatch up to call_next (rate_limit.py 26-49): the lists after it, and
\* whether it raised HTTPException(429).  There is no await in these lines,
\* so the event loop runs them as one step.
dispatch(requests, path, client_ip, current_time) ==
    IF path \in ExemptPaths
      THEN [requests |-> requests, raised |-> FALSE]
      ELSE LET cleaned == [requests EXCEPT ![client_ip] = clean(@, current_time)]
           IN  IF over_limit(Len(cleaned[client_ip]))
                 THEN [requests |-> cleaned, raised |-> TRUE]
                 ELSE [requests |-> [cleaned EXCEPT ![client_ip] = Append(@, current_time)],
                       raised |-> FALSE]

\* The middleware after construction (rate_limit.py 20-24), with the
\* history the properties are stated on: admitted[c] holds the times at
\* which a request of c to a limited path was passed on, last is the request
\* dispatched most recently, in_flight counts the requests inside call_next.
NoCall == [client |-> "", path |-> "", time |-> 0, status |-> 0]
NoLimiter ==
    [ clock |-> 0, requests |-> [c \in Clients |-> <<>>],
      admitted |-> [c \in Clients |-> <<>>],
      calls |-> 0, in_flight |-> 0, last |-> NoCall ]

\* ------------------------------------------------- optional authentication
\* get_optional_user (firebase_auth.py 199-265).  The Authorization header is
\* absent, of another scheme, or a bearer token; HTTPBearer(auto_error=False)
\* (firebase_auth.py 105) gives credentials for a bearer token only.
Uids == {"uid-active", "uid-inactive", "uid-new"}
Tokens ==
    [ verdict : {"valid", "invalid", "expired", "revoked", "error"},
      uid     : Uids,
      email   : {None, Some("a@example.com")} ]
Headers ==
    { [scheme |-> "absent", token |-> None], [scheme |-> "basic", token |-> None] }
    \cup { [scheme |-> "bearer", token |-> Some(t)] : t \in Tokens }

optional_security(header) == IF header.scheme = "bearer" THEN header.token ELSE None

\* The users table the function is exercised on: an active and a deactivated
\* user; users.id is the position.
Users0 ==
    << [firebase_uid |-> "uid-active",   is_active |-> TRUE],
       [firebase_uid |-> "uid-inactive", is_active |-> FALSE] >>

\* The try block (firebase_auth.py 228-260): what it returns or raises, and
\* the users table it leaves.  auth.verify_id_token raises for a token that
\* is not valid; the query and the commit of an auto-registration can raise.
AuthBody(token, users, db) ==
    LET found == { i \in DOMAIN users : users[i].firebase_uid = token.uid }
        none  == [exc |-> "", user |-> None, users |-> users]
    IN  IF token.verdict # "valid"
          THEN [exc |-> token.verdict, user |-> None, users |-> users]
        ELSE IF IsNone(token.email) THEN none
        ELSE IF ~db.query_ok
          THEN [exc |-> "SQLAlchemyError", user |-> None, users |-> users]
        ELSE IF found = {}
          THEN IF ~db.commit_ok
                 THEN [exc |-> "SQLAlchemyError", user |-> None, users |-> users]
                 ELSE [exc |-> "", user |-> Some(Len(users) + 1),
                       users |-> Append(users, [firebase_uid |-> token.uid,
                                                is_active |-> TRUE])]
        ELSE LET i == CHOOSE i \in found : TRUE
             IN  IF ~users[i].is_active THEN none
                 ELSE [exc |-> "", user |-> Some(i), users |-> users]

\* A variant of get_optional_user that lets the try block's exception out
\* and refuses a deactivated user, as the required authentication does; C20
\* tells it from get_optional_user.
get_optional_user_required(credentials, initialized, users, db) ==
    LET guest == [exc |-> "", user |-> None, users |-> users]
    IN  IF IsNone(credentials) THEN guest
        ELSE IF ~initialized THEN guest
        ELSE AuthBody(Val(credentials), users, db)

\* get_optional_user: no credentials and no initialised Firebase give None;
\* "except Exception" turns whatever the try block raises into None
\* (firebase_auth.py 262-265).
get_optional_user(credentials, initialized, users, db) ==
    LET guest == [exc |-> "", user |-> None, users |-> users]
    IN  IF IsNone(credentials) THEN guest
        ELSE IF ~initialized THEN guest
        ELSE LET body == AuthBody(Val(credentials), users, db)
             IN  IF body.exc # "" THEN guest ELSE body

\* ------------------------------------------------------------------- state
VARIABLES
    GOOGLE_API_KEY, \* the deployment's key for the language model, or None
    now,        \* the clock, in hours (datetime.utcnow / the server's now())
    reports,    \* the reports table: id -> row, for the rows that exist
    next_id,    \* the next primary key the table hands out
    request,    \* request[r]: analyze request r, its position and locals
    job,        \* job[r]: the background task request r scheduled
    response,   \* what the step just taken answered, for the read and admin endpoints
    calc,       \* a call of the score calculator on its own: arguments and result
    probe,      \* a call of crawl_website on its own: the network and the requests issued
    auth,       \* a call of get_optional_user on its own: header, services and result
    lighthouse, \* a call of the safe Lighthouse fetch on its own: reply and result
    page,       \* a parsed document given to the metric extractors on its own, and what they return
    flat,       \* a call of _process_ai_suggestions on its own
    limiter     \* the rate limiting middleware on its own

vars == <<GOOGLE_API_KEY, now, reports, next_id, request, job, response, calc, probe, auth, lighthouse, page, flat, limiter>>

\* The report pipeline's state, and the state of the functions that are
\* exercised on their own.
pipeline == <<GOOGLE_API_KEY, now, reports, next_id, request, job, response>>
units    == <<calc, probe, auth, lighthouse, page, flat, limiter>>

\* No call of get_optional_user on its own is under way.
NoAuth ==
    [ pc |-> "none", header |-> [scheme |-> "absent", token |-> None],
      firebase_initialized |-> FALSE, db |-> [query_ok |-> TRUE, commit_ok |-> TRUE],
      users |-> Users0, exc |-> "", user |-> None ]

\* No call of crawl_website on its own is under way.
NoProbe ==
    [ pc |-> "none", url |-> GoodUrl,
      net |-> [get |-> [kind |-> "timeout", status |-> 0, readable |-> FALSE],
               robots |-> [kind |-> "error", status |-> 0],
               sitemap |-> [kind |-> "error", status |-> 0]],
      requests |-> <<>>, result |-> None,
      robots_txt_exists |-> FALSE, sitemap_exists |-> FALSE ]

\* No call of the score calculator is under way.
NoCalc ==
    [ pc |-> "none", args |-> Args(None, None, 0, 0, 0, 0, FALSE, FALSE), score |-> 0 ]

GUEST_REPORT_RETENTION_HOURS == 24

PerfFields == {"lighthouse_performance", "lighthouse_accessibility",
               "lighthouse_seo", "lighthouse_best_practices"}

\* models.Report(...) of _create_report with lighthouse_status = 'pending'
\* (analyzer.py 151-182); id and created_at are given by the table on commit.
NewReport(id, url, user_id, crawl_data, ai_result, processed_suggestions, created_at) ==
    [ id                        |-> id,
      url                       |-> url,
      user_id                   |-> user_id,
      created_at                |-> created_at,
      title                     |-> crawl_data.title,
      seo_score                 |-> crawl_data.seo_score,
      load_time                 |-> crawl_data.load_time,
      ai_summary                |-> SummaryOf(ai_result),
      ai_suggestions            |-> processed_suggestions,
      lighthouse_performance    |-> None,
      lighthouse_accessibility  |-> None,
      lighthouse_seo            |-> None,
      lighthouse_best_practices |-> None,
      lighthouse_status         |-> "pending" ]

\* schemas.ReportResponse (schemas.py 25-59), the response model of the analyze
\* and read endpoints: a response carries the fields the model declares.
ResponseFields ==
    { "id", "url", "user_id", "created_at", "title", "seo_score", "load_time",
      "ai_summary", "ai_suggestions", "lighthouse_performance",
      "lighthouse_accessibility", "lighthouse_seo", "lighthouse_best_practices" }

ReportResponse(report) == [f \in ResponseFields |-> report[f]]

\* A request's locals; they are dropped when the service returns or raises.
IdleRequest ==
    [ pc |-> "idle", user |-> None, url |-> GoodUrl, crawl_data |-> None,
      report_id |-> None, error |-> "", stages |-> {} ]

Ended(req, pc, error) ==
    [ IdleRequest EXCEPT !.pc = pc, !.user = req.user, !.report_id = req.report_id,
                         !.error = error, !.stages = req.stages ]

\* A variant of StatusOf that answers every exception as a client error;
\* C11 tells it from StatusOf.
StatusOf_client_error(error) == 400

\* The status of an exception that leaves the service (exceptions.py 10-18);
\* one that is no SiteSageException is a server error.
StatusOf(error) == IF error = "CrawlerException" THEN 400 ELSE 500

\* The answer to POST /analyze (routes.py 70-75, 104-109).
Raised(req, error) ==
    [ op |-> "analyze", status |-> StatusOf(error), current_user |-> req.user,
      report_id |-> None, error |-> error, report |-> None, body |-> None ]

Created(req, report) ==
    [ op |-> "analyze", status |-> 201, current_user |-> req.user,
      report_id |-> Some(report.id), error |-> "", report |-> Some(report),
      body |-> Some(ReportResponse(report)) ]

NoMetrics ==
    [ performance |-> None, accessibility |-> None, seo |-> None, best_practices |-> None ]

\* A database session: who created it, and whether it is open.  get_db
\* (database.py 39-52) creates the session of a request, the background task
\* creates its own (analyzer.py 205).
SessionLocal(owner) == [ owner |-> owner, open |-> TRUE ]
close(db)           == [ db EXCEPT !.open = FALSE ]

\* A background task: its arguments, its session once it has started, how
\* it ended and, for a task that updated its row, what the safe fetch had
\* given it (and whether the fetch inside had raised, which only the log
\* shows).
NoJob ==
    [ pc |-> "none", report_id |-> None, url |-> GoodUrl, db |-> None,
      metrics |-> NoMetrics, fetch_raised |-> FALSE, outcome |-> "" ]

NoResponse == [ op |-> "none" ]

\* A variant of create_report that saves every report without owner; C19
\* tells it from create_report.
create_report_as_guest(id, req, ai_result, processed_suggestions, created_at) ==
    NewReport(id, req.url, None, Val(req.crawl_data), ai_result,
              processed_suggestions, created_at)

\* _create_report as called by step 4 (analyzer.py 82-89, 129-188).
create_report(id, req, ai_result, processed_suggestions, created_at) ==
    NewReport(id, req.url, req.user, Val(req.crawl_data), ai_result,
              processed_suggestions, created_at)

\* background_tasks.add_task(fetch_and_update_lighthouse, report.id, url)
\* (analyzer.py 97-101).
add_task(report_id, url) ==
    [ NoJob EXCEPT !.pc = "queued", !.report_id = report_id, !.url = url ]

\* ---------------------------------------------- External Performance Fetcher
\* A PageSpeed category score is a fraction 0..1, held here in thousandths;
\* a report's score is 0..100 with two decimals, held in hundredths.
\* A variant of extract_score that gives 0 for a category without score;
\* C21 tells it from extract_score.
extract_score_zero(categories, category_name) ==
    IF IsNone(categories[category_name]) THEN Some(0)
    ELSE Some(Val(categories[category_name]) * 10)

\* _extract_score (pagespeed.py 85-98): round(score * 100, 2), None when the
\* category or its score is missing.
extract_score(categories, category_name) ==
    IF IsNone(categories[category_name]) THEN None
    ELSE Some(Val(categories[category_name]) * 10)

\* What the PageSpeed call can produce (pagespeed.py 49-62, 78-83).
PageSpeedOutcomes ==
    { [kind |-> "ok",
       categories |-> [performance |-> Some(955), accessibility |-> Some(880),
                       seo |-> Some(1000), best_practices |-> Some(0)]],
      [kind |-> "status",
       categories |-> [performance |-> None, accessibility |-> None,
                       seo |-> None, best_practices |-> None]],
      [kind |-> "client_error",
       categories |-> [performance |-> None, accessibility |-> None,
                       seo |-> None, best_practices |-> None]] }

\* fetch_lighthouse_metrics (pagespeed.py 18-83): the four scores, or a
\* PageSpeedException.
fetch_lighthouse_metrics(api) ==
    IF api.kind # "ok"
      THEN [raised |-> TRUE, metrics |-> NoMetrics]
      ELSE [raised |-> FALSE,
            metrics |-> [ performance    |-> extract_score(api.categories, "performance"),
                          accessibility  |-> extract_score(api.categories, "accessibility"),
                          seo            |-> extract_score(api.categories, "seo"),
                          best_practices |-> extract_score(api.categories, "best_practices") ]]

\* fetch_lighthouse_metrics_safe (pagespeed.py 100-114).
fetch_lighthouse_metrics_safe(api) ==
    IF fetch_lighthouse_metrics(api).raised THEN NoMetrics
    ELSE fetch_lighthouse_metrics(api).metrics

\* The replies the safe fetch is exercised on: every way the call can fail,
\* and valid replies in which each category is missing or has a score.
PageSpeedKinds == {"ok", "status", "client_error", "timeout", "not_json", "not_object"}
CategoryScores == {None, Some(0), Some(955)}
PageSpeedReplies ==
    { [kind |-> k,
       categories |-> [performance |-> p, accessibility |-> a,
                       seo |-> s, best_practices |-> b]] :
        k \in PageSpeedKinds, p \in CategoryScores, a \in CategoryScores,
        s \in CategoryScores, b \in CategoryScores }

\* No call of the safe fetch on its own is under way.
NoLighthouse ==
    [ pc |-> "none", api |-> [kind |-> "timeout", categories |-> NoMetrics],
      inner_raised |-> FALSE, metrics |-> NoMetrics ]

\* A variant of UpdatedReport that marks the row completed only when a
\* score is present; C4 tells it from UpdatedReport.
UpdatedReport_when_present(report, metrics) ==
    [ report EXCEPT !.lighthouse_performance    = metrics.performance,
                    !.lighthouse_accessibility  = metrics.accessibility,
                    !.lighthouse_seo            = metrics.seo,
                    !.lighthouse_best_practices = metrics.best_practices,
                    !.lighthouse_status         =
                        IF metrics = NoMetrics THEN "failed" ELSE "completed" ]

\* The task's update of the row it found (analyzer.py 213-219).
UpdatedReport(report, metrics) ==
    [ report EXCEPT !.lighthouse_performance    = metrics.performance,
                    !.lighthouse_accessibility  = metrics.accessibility,
                    !.lighthouse_seo            = metrics.seo,
                    !.lighthouse_best_practices = metrics.best_practices,
                    !.lighthouse_status         = "completed" ]

\* A variant of FailedReport that marks the row completed; C5 tells it from
\* FailedReport.
FailedReport_completing(report) == [ report EXCEPT !.lighthouse_status = "completed" ]

\* A variant of FailedReport that also clears the AI summary; C6 tells it
\* from FailedReport.
FailedReport_clearing(report) ==
    [ report EXCEPT !.lighthouse_status = "failed", !.ai_summary = <<>> ]

\* The except branch's update (analyzer.py 230-232).
FailedReport(report) == [ report EXCEPT !.lighthouse_status = "failed" ]

\* A variant of Finished that closes the session only after a write; C26
\* tells it from Finished.
Finished_leaking(j, metrics, raised, outcome) ==
    [ j EXCEPT !.pc = "done", !.metrics = metrics, !.fetch_raised = raised,
               !.outcome = outcome,
               !.db = IF outcome \in {"updated", "marked_failed"}
                        THEN Some(close(Val(@))) ELSE @ ]

\* A variant of first that, for an id without row, gives a row of the table
\* under that id; C27 tells it from first.
first_or_other(table, id) ==
    IF id \in DOMAIN table THEN Some(table[id])
    ELSE IF DOMAIN table = {} THEN None
    ELSE Some([table[CHOOSE i \in DOMAIN table : TRUE] EXCEPT !.id = id])

\* db.query(models.Report).filter(models.Report.id == report_id).first()
\* (analyzer.py 210, 229).
first(table, id) == IF id \in DOMAIN table THEN Some(table[id]) ELSE None

\* finally: db.close() (analyzer.py 236-237).
Finished(j, metrics, raised, outcome) ==
    [ j EXCEPT !.pc = "done", !.metrics = metrics, !.fetch_raised = raised,
               !.outcome = outcome, !.db = Some(close(Val(@))) ]

\* ------------------------------------------------------------- read path
\* A variant of AccessStatus without the owner comparison; C8 tells it from
\* AccessStatus.
AccessStatus_any_principal(report_id, current_user, table) ==
    IF report_id \notin DOMAIN table THEN 404
    ELSE IF IsNone(table[report_id].user_id) THEN 200
    ELSE IF IsNone(current_user) THEN 401
    ELSE 200

\* The access decision of get_report (routes.py 191-221) as a status code.
AccessStatus(report_id, current_user, table) ==
    IF report_id \notin DOMAIN table THEN 404
    ELSE IF IsNone(table[report_id].user_id) THEN 200
    ELSE IF IsNone(current_user) THEN 401
    ELSE IF current_user # table[report_id].user_id THEN 403
    ELSE 200

\* ---------------------------------------------------------- retention sweep
GuestReports(table) == { id \in DOMAIN table : IsNone(table[id].user_id) }

\* A variant of OldGuestReports whose comparison is not strict; C9 tells it
\* from OldGuestReports.
OldGuestReports_inclusive(table, retention_hours, utcnow) ==
    { id \in DOMAIN table : /\ IsNone(table[id].user_id)
                            /\ table[id].created_at <= utcnow - retention_hours }

\* The query of cleanup_guest_reports (cleanup.py 42-48).
OldGuestReports(table, retention_hours, utcnow) ==
    { id \in GuestReports(table) : table[id].created_at < utcnow - retention_hours }

Init ==
    /\ limiter = NoLimiter
    /\ flat = NoFlat
    /\ page = NoPage
    /\ lighthouse = NoLighthouse
    /\ GOOGLE_API_KEY \in {None, Some("key")}
    /\ now = 0
    /\ reports = <<>>
    /\ next_id = 1
    /\ request = [r \in Requests |-> IdleRequest]
    /\ job = [r \in Requests |-> NoJob]
    /\ response = NoResponse
    /\ calc = NoCalc
    /\ probe = NoProbe
    /\ auth = NoAuth

Exists(id) == id \in DOMAIN reports

\* db.add / db.commit of a new row, and the removal of a set of rows.
Insert(row)  == [i \in DOMAIN reports \cup {row.id} |-> IF i = row.id THEN row ELSE reports[i]]
Delete(ids)  == [i \in DOMAIN reports \ ids |-> reports[i]]
Store(row)   == [reports EXCEPT ![row.id] = row]

\* get_report (routes.py 159-227): the row the handler returns and the body
\* made of it, or the HTTP error.  A query that raises becomes a
\* DatabaseException, whose answer names neither the report nor the caller.
get_report(report_id, current_user, db_ok) ==
    LET status == AccessStatus(report_id, current_user, reports) IN
    IF ~db_ok
      THEN [ op |-> "get_report", status |-> StatusOf("DatabaseException"),
             report_id |-> 0, current_user |-> None, report |-> None, body |-> None ]
      ELSE [ op |-> "get_report", status |-> status, report_id |-> report_id,
             current_user |-> current_user,
             report |-> IF status = 200 THEN Some(reports[report_id]) ELSE None,
             body |-> IF status = 200 THEN Some(ReportResponse(reports[report_id])) ELSE None ]

\* A variant of cleanup_guest_reports whose dry run counts every guest
\* report; C10 tells it from cleanup_guest_reports.
cleanup_guest_reports_counting_all(retention_hours, dry_run) ==
    LET old   == OldGuestReports(reports, retention_hours, now)
        count == Cardinality(old)
    IN  IF dry_run
          THEN [deleted |-> {}, deleted_count |-> Cardinality(GuestReports(reports))]
        ELSE IF count = 0
          THEN [deleted |-> {}, deleted_count |-> count]
          ELSE [deleted |-> old, deleted_count |-> count]

\* cleanup_guest_reports (cleanup.py 41-70): the rows it deletes and the
\* count it returns.
cleanup_guest_reports(retention_hours, dry_run) ==
    LET old   == OldGuestReports(reports, retention_hours, now)
        count == Cardinality(old)
    IN  IF count = 0 \/ dry_run
          THEN [deleted |-> {}, deleted_count |-> count]
          ELSE [deleted |-> old, deleted_count |-> count]

\* ------------------------------------------------- analyze_url_service
\* POST /analyze (routes.py 76-109) and step 1 of the service (analyzer.py
\* 54-63): the caller is resolved by the optional authentication, and the
\* awaited crawl_website returns or raises; the service re-raises a
\* CrawlerException and wraps anything else into one.  Requests are numbered
\* as they arrive.
Probe(r) ==
    /\ request[r].pc = "idle"
    /\ \A q \in Requests : q < r => request[q].pc # "idle"
    /\ \E user \in Submitters, url \in Urls : \E net \in NetworkFor(url) :
         LET res == crawl_website(url, net)
             req == [request[r] EXCEPT !.user = user, !.url = url,
                                       !.stages = {"probe"}]
         IN  IF res.ok
               THEN /\ request' = [request EXCEPT ![r] =
                         [req EXCEPT !.pc = "augment", !.crawl_data = res.data]]
                    /\ response' = NoResponse
               ELSE /\ request' = [request EXCEPT ![r] = Ended(req, "failed", res.error)]
                    /\ response' = Raised(req, res.error)
    /\ UNCHANGED <<GOOGLE_API_KEY, now, reports, next_id, job>>
    /\ UNCHANGED units

\* Steps 2 to 5 (analyzer.py 65-103), which run without an await.
\* analyze_with_ai catches every exception itself, so the except branch of
\* step 2 never receives one; step 3 is outside every try block, so what it
\* raises leaves the service as it is; in step 4 _create_report adds, commits
\* and refreshes the row, and any exception rolls the session back and
\* becomes a DatabaseException: one of add or commit before the row is
\* stored, one of refresh (analyzer.py 186) after the commit has stored it;
\* step 5 adds the background task for the new row's id and returns the
\* report.  The task runs once the response has gone out.
Analyze(r) ==
    /\ request[r].pc = "augment"
    /\ \E llm \in LlmOutcomes, db \in {"ok", "commit_raises", "refresh_raises"} :
         LET ai  == analyze_with_ai(GOOGLE_API_KEY, llm)
             res == ProcessStep(ai)
             at3 == [request[r] EXCEPT !.stages = @ \cup {"augment"}]
             at4 == [at3 EXCEPT !.stages = @ \cup {"persist"}]
             at5 == [at4 EXCEPT !.stages = @ \cup {"enrich"}, !.report_id = Some(next_id)]
             row == create_report(next_id, at3, ai, res.suggestions, now)
         IN  IF ~res.ok
               THEN /\ request' = [request EXCEPT ![r] = Ended(at3, "failed", res.error)]
                    /\ response' = Raised(at3, res.error)
                    /\ UNCHANGED <<reports, next_id, job>>
             ELSE IF db = "commit_raises"
               THEN /\ request' = [request EXCEPT ![r] =
                                     Ended(at4, "failed", "DatabaseException")]
                    /\ response' = Raised(at4, "DatabaseException")
                    /\ UNCHANGED <<reports, next_id, job>>
             ELSE IF db = "refresh_raises"
               THEN /\ reports' = Insert(row)
                    /\ next_id' = next_id + 1
                    /\ request' = [request EXCEPT ![r] =
                                     Ended(at4, "failed", "DatabaseException")]
                    /\ response' = Raised(at4, "DatabaseException")
                    /\ UNCHANGED job
             ELSE /\ reports' = Insert(row)
                  /\ next_id' = next_id + 1
                  /\ job' = [job EXCEPT ![r] = add_task(Some(row.id), row.url)]
                  /\ request' = [request EXCEPT ![r] = Ended(at5, "done", "")]
                  /\ response' = Created(at5, row)
    /\ UNCHANGED <<GOOGLE_API_KEY, now>>
    /\ UNCHANGED units

\* ------------------------------------------- fetch_and_update_lighthouse
\* The task starts (analyzer.py 191-207): it opens a session of its own and
\* awaits the safe fetch.
LighthouseJobStart(r) ==
    /\ job[r].pc = "queued"
    /\ IsNone(job[r].db)
    /\ job' = [job EXCEPT ![r].db = Some(SessionLocal(<<"task", r>>))]
    /\ response' = NoResponse
    /\ UNCHANGED <<GOOGLE_API_KEY, now, reports, next_id, request>>
    /\ UNCHANGED units

\* The fetch returns and the task runs to its end (analyzer.py 207-237): it
\* updates the row; a query or commit that raises sends it to the except
\* branch, which marks the row failed if that is possible and rolls back
\* when this raises too.  The session is closed on every path.
LighthouseJob(r) ==
    /\ job[r].pc = "queued"
    /\ ~IsNone(job[r].db)
    /\ \E api \in PageSpeedOutcomes, update_ok \in BOOLEAN :
       \E mark_ok \in IF update_ok THEN {TRUE} ELSE BOOLEAN :
         LET metrics == fetch_lighthouse_metrics_safe(api)
             raised  == fetch_lighthouse_metrics(api).raised
             id      == Val(job[r].report_id)
             report  == first(reports, id)
             end(o)  == [job EXCEPT ![r] = Finished(@, NoMetrics, FALSE, o)]
         IN  IF update_ok
               THEN IF ~IsNone(report)
                      THEN /\ reports' = Store(UpdatedReport(Val(report), metrics))
                           /\ job' = [job EXCEPT ![r] =
                                        Finished(@, metrics, raised, "updated")]
                      ELSE /\ job' = end("not_found")
                           /\ UNCHANGED reports
             ELSE IF ~mark_ok
               THEN /\ job' = end("rolled_back")
                    /\ UNCHANGED reports
             ELSE IF ~IsNone(report)
               THEN /\ reports' = Store(FailedReport(Val(report)))
                    /\ job' = end("marked_failed")
             ELSE /\ job' = end("gone")
                  /\ UNCHANGED reports
    /\ response' = NoResponse
    /\ UNCHANGED <<GOOGLE_API_KEY, now, next_id, request>>
    /\ UNCHANGED units

\* ------------------------------------------------------------ get_report
\* GET /reports/{report_id} (routes.py 164-227).
GetReport ==
    /\ \E report_id \in 1..next_id, current_user \in Callers, db_ok \in BOOLEAN :
         response' = get_report(report_id, current_user, db_ok)
    /\ UNCHANGED <<GOOGLE_API_KEY, now, reports, next_id, request, job>>
    /\ UNCHANGED units

\* ------------------------------------------- cleanup_guest_reports_endpoint
\* POST /admin/cleanup-guest-reports (routes.py 413-461) around
\* cleanup_guest_reports (cleanup.py 22-75).  An exception of the sweep
\* rolls back and is answered with 500.
Cleanup ==
    /\ \E retention_hours \in {None} \cup {Some(h) : h \in Thresholds},
          dry_run \in BOOLEAN, db_ok \in BOOLEAN :
         LET retention == IF IsNone(retention_hours) THEN GUEST_REPORT_RETENTION_HOURS
                          ELSE Val(retention_hours)
             result    == cleanup_guest_reports(retention, dry_run)
         IN  IF db_ok
               THEN /\ reports' = Delete(result.deleted)
                    /\ response' = [ op |-> "cleanup", status |-> 200,
                                     retention_hours |-> retention, dry_run |-> dry_run,
                                     deleted_count |-> result.deleted_count ]
               ELSE /\ UNCHANGED reports
                    /\ response' = [ op |-> "cleanup", status |-> 500,
                                     retention_hours |-> 0, dry_run |-> FALSE,
                                     deleted_count |-> 0 ]
    /\ UNCHANGED <<GOOGLE_API_KEY, now, next_id, request, job>>
    /\ UNCHANGED units

\* An hour passes.
Tick ==
    /\ now < MaxTime
    /\ now' = now + 1
    /\ response' = NoResponse
    /\ UNCHANGED <<GOOGLE_API_KEY, reports, next_id, request, job>>
    /\ UNCHANGED units

Next ==
    \/ \E r \in Requests : Probe(r) \/ Analyze(r) \/ LighthouseJobStart(r) \/ LighthouseJob(r)
    \/ GetReport
    \/ Cleanup
    \/ Tick

Spec == Init /\ [][Next]_vars

\* The pipeline with its background tasks scheduled fairly: a task that
\* has been added is started once the response has gone out, and its fetch
\* returns, at the latest when the 60 seconds of its timeout are over
\* (pagespeed.py 53).
\* The reads are left out of it: they change nothing but their answer.
NextLive ==
    \/ \E r \in Requests : Probe(r) \/ Analyze(r) \/ LighthouseJobStart(r) \/ LighthouseJob(r)
    \/ Cleanup
    \/ Tick

SpecLive ==
    /\ Init
    /\ [][NextLive]_vars
    /\ \A r \in Requests : WF_vars(LighthouseJobStart(r)) /\ WF_vars(LighthouseJob(r))

\* ------------------------------------------- the score calculator on its own
\* A call of _calculate_seo_score with arguments from ScoreCalls; the
\* function reads and writes nothing else.
InitScore ==
    /\ limiter = NoLimiter
    /\ flat = NoFlat
    /\ page = NoPage
    /\ lighthouse = NoLighthouse
    /\ GOOGLE_API_KEY = None
    /\ now = 0
    /\ reports = <<>>
    /\ next_id = 1
    /\ request = [r \in Requests |-> IdleRequest]
    /\ job = [r \in Requests |-> NoJob]
    /\ response = NoResponse
    /\ calc \in { [pc |-> "called", args |-> a, score |-> 0] : a \in ScoreCalls }
    /\ probe = NoProbe
    /\ auth = NoAuth

Calculate ==
    /\ calc.pc = "called"
    /\ calc' = [ calc EXCEPT
                   !.pc = "returned",
                   !.score = calculate_seo_score(
                                 calc.args.title, calc.args.meta_description,
                                 calc.args.h1_count, calc.args.h2_count,
                                 calc.args.missing_alt_count, calc.args.image_count,
                                 calc.args.has_meta_viewport, calc.args.has_canonical) ]
    /\ UNCHANGED <<pipeline, probe, auth, lighthouse, page, flat, limiter>>

NextScore == Calculate

SpecScore == InitScore /\ [][NextScore]_vars

\* ---------------------------------------------------- the prober on its own
\* A call of crawl_website (crawler.py 28-93) against a network whose answers
\* are fixed beforehand; the requests the call issues are recorded as it
\* issues them.
InitProbe ==
    /\ limiter = NoLimiter
    /\ flat = NoFlat
    /\ page = NoPage
    /\ lighthouse = NoLighthouse
    /\ GOOGLE_API_KEY = None
    /\ now = 0
    /\ reports = <<>>
    /\ next_id = 1
    /\ request = [r \in Requests |-> IdleRequest]
    /\ job = [r \in Requests |-> NoJob]
    /\ response = NoResponse
    /\ calc = NoCalc
    /\ auth = NoAuth
    /\ probe \in { [ NoProbe EXCEPT !.pc = "called", !.url = u,
                                    !.net = [get |-> g, robots |-> h1, sitemap |-> h2] ] :
                     u \in ProbeUrls, g \in GetOutcomes,
                     h1 \in HeadOutcomes, h2 \in HeadOutcomes }

\* Validation, the GET and the reading of the body (crawler.py 41-77); a
\* CrawlerException leaves the function, anything else is wrapped into one
\* (crawler.py 89-93).
ProbeFetch ==
    /\ probe.pc = "called"
    /\ IF ~HasSchemeAndHost(probe.url)
         THEN probe' = [ probe EXCEPT !.pc = "returned",
                           !.result = Some(crawl_website(probe.url, "not_requested")) ]
         ELSE LET net == GetOutcome(probe.net.get)
                  sent == Append(probe.requests, <<"GET", probe.url>>)
              IN  IF net # "ok"
                    THEN probe' = [ probe EXCEPT !.pc = "returned", !.requests = sent,
                                      !.result = Some(crawl_website(probe.url, net)) ]
                    ELSE probe' = [ probe EXCEPT !.pc = "robots", !.requests = sent ]
    /\ UNCHANGED <<pipeline, calc, auth, lighthouse, page, flat, limiter>>

\* _extract_pro_metrics, the two existence checks (crawler.py 250-251).
ProbeHeadRobots ==
    /\ probe.pc = "robots"
    /\ probe' = [ probe EXCEPT !.pc = "sitemap",
                    !.requests = Append(@, <<"HEAD", "/robots.txt">>),
                    !.robots_txt_exists = check_url_exists(probe.net.robots) ]
    /\ UNCHANGED <<pipeline, calc, auth, lighthouse, page, flat, limiter>>

ProbeHeadSitemap ==
    /\ probe.pc = "sitemap"
    /\ probe' = [ probe EXCEPT !.pc = "returned",
                    !.requests = Append(@, <<"HEAD", "/sitemap.xml">>),
                    !.sitemap_exists = check_url_exists(probe.net.sitemap),
                    !.result = Some(crawl_website(probe.url, "ok")) ]
    /\ UNCHANGED <<pipeline, calc, auth, lighthouse, page, flat, limiter>>

NextProbe == ProbeFetch \/ ProbeHeadRobots \/ ProbeHeadSitemap

SpecProbe == InitProbe /\ [][NextProbe]_vars

\* ------------------------------------- optional authentication on its own
\* A call of get_optional_user for a header, with Firebase initialised or
\* not, and a database whose query and commit work or raise.
InitAuth ==
    /\ limiter = NoLimiter
    /\ flat = NoFlat
    /\ page = NoPage
    /\ lighthouse = NoLighthouse
    /\ GOOGLE_API_KEY = None
    /\ now = 0
    /\ reports = <<>>
    /\ next_id = 1
    /\ request = [r \in Requests |-> IdleRequest]
    /\ job = [r \in Requests |-> NoJob]
    /\ response = NoResponse
    /\ calc = NoCalc
    /\ probe = NoProbe
    /\ auth \in { [ NoAuth EXCEPT !.pc = "called", !.header = h,
                                  !.firebase_initialized = fi,
                                  !.db = [query_ok |-> q, commit_ok |-> c] ] :
                    h \in Headers, fi \in BOOLEAN, q \in BOOLEAN, c \in BOOLEAN }

Authenticate ==
    /\ auth.pc = "called"
    /\ LET res == get_optional_user(optional_security(auth.header),
                                    auth.firebase_initialized, auth.users, auth.db)
       IN  auth' = [ auth EXCEPT !.pc = "returned", !.exc = res.exc,
                                 !.user = res.user, !.users = res.users ]
    /\ UNCHANGED <<pipeline, calc, probe, lighthouse, page, flat, limiter>>

NextAuth == Authenticate

SpecAuth == InitAuth /\ [][NextAuth]_vars

\* ------------------------------------------------ the safe fetch on its own
\* A call of fetch_lighthouse_metrics_safe (pagespeed.py 100-114) for a reply
\* of the PageSpeed API; inner_raised tells whether fetch_lighthouse_metrics
\* inside it raised.
InitFetch ==
    /\ limiter = NoLimiter
    /\ flat = NoFlat
    /\ page = NoPage
    /\ GOOGLE_API_KEY = None
    /\ now = 0
    /\ reports = <<>>
    /\ next_id = 1
    /\ request = [r \in Requests |-> IdleRequest]
    /\ job = [r \in Requests |-> NoJob]
    /\ response = NoResponse
    /\ calc = NoCalc
    /\ probe = NoProbe
    /\ auth = NoAuth
    /\ lighthouse \in { [NoLighthouse EXCEPT !.pc = "called", !.api = api] :
                          api \in PageSpeedReplies }

FetchSafe ==
    /\ lighthouse.pc = "called"
    /\ lighthouse' = [ lighthouse EXCEPT
                         !.pc = "returned",
                         !.inner_raised = fetch_lighthouse_metrics(lighthouse.api).raised,
                         !.metrics = fetch_lighthouse_metrics_safe(lighthouse.api) ]
    /\ UNCHANGED <<pipeline, calc, probe, auth, page, flat, limiter>>

NextFetch == FetchSafe

SpecFetch == InitFetch /\ [][NextFetch]_vars

\* ------------------------------------------- the metric extractors on their own
\* _extract_seo_metrics and then _extract_pro_metrics on a parsed document of
\* the page GoodUrl, as crawl_website calls them (crawler.py 80, 83).
InitExtract ==
    /\ limiter = NoLimiter
    /\ flat = NoFlat
    /\ GOOGLE_API_KEY = None
    /\ now = 0
    /\ reports = <<>>
    /\ next_id = 1
    /\ request = [r \in Requests |-> IdleRequest]
    /\ job = [r \in Requests |-> NoJob]
    /\ response = NoResponse
    /\ calc = NoCalc
    /\ probe = NoProbe
    /\ auth = NoAuth
    /\ lighthouse = NoLighthouse
    /\ page \in { [NoPage EXCEPT !.pc = "parsed", !.title_tag = t, !.hrefs = a] :
                    t \in TitleTags, a \in Anchors }

ExtractSeo ==
    /\ page.pc = "parsed"
    /\ page' = [ page EXCEPT !.pc = "seo", !.title = extracted_title(page.title_tag) ]
    /\ UNCHANGED <<pipeline, calc, probe, auth, lighthouse, flat, limiter>>

ExtractPro ==
    /\ page.pc = "seo"
    /\ LET counts == count_links(GoodUrl, page.hrefs,
                                 [internal_links_count |-> 0, external_links_count |-> 0])
       IN  page' = [ page EXCEPT !.pc = "returned",
                                 !.internal_links_count = counts.internal_links_count,
                                 !.external_links_count = counts.external_links_count ]
    /\ UNCHANGED <<pipeline, calc, probe, auth, lighthouse, flat, limiter>>

NextExtract == ExtractSeo \/ ExtractPro

SpecExtract == InitExtract /\ [][NextExtract]_vars

\* ------------------------------------------- the flattening on its own
\* A call of _process_ai_suggestions (analyzer.py 106-126) on a suggestion
\* list.
InitFlatten ==
    /\ GOOGLE_API_KEY = None
    /\ now = 0
    /\ reports = <<>>
    /\ next_id = 1
    /\ request = [r \in Requests |-> IdleRequest]
    /\ job = [r \in Requests |-> NoJob]
    /\ response = NoResponse
    /\ calc = NoCalc
    /\ probe = NoProbe
    /\ auth = NoAuth
    /\ lighthouse = NoLighthouse
    /\ page = NoPage
    /\ limiter = NoLimiter
    /\ flat \in { [NoFlat EXCEPT !.pc = "called", !.suggestions = l] : l \in SuggestionLists }

Flatten ==
    /\ flat.pc = "called"
    /\ flat' = [ flat EXCEPT !.pc = "returned",
                             !.processed = process_ai_suggestions(flat.suggestions) ]
    /\ UNCHANGED <<pipeline, calc, probe, auth, lighthouse, page, limiter>>

NextFlatten == Flatten

SpecFlatten == InitFlatten /\ [][NextFlatten]_vars

\* ------------------------------------------- the rate limiter on its own
\* Requests of two clients reach the middleware while earlier ones are
\* still inside call_next, and the clock (time(), rate_limit.py 32) moves on.
InitLimiter ==
    /\ GOOGLE_API_KEY = None
    /\ now = 0
    /\ reports = <<>>
    /\ next_id = 1
    /\ request = [r \in Requests |-> IdleRequest]
    /\ job = [r \in Requests |-> NoJob]
    /\ response = NoResponse
    /\ calc = NoCalc
    /\ probe = NoProbe
    /\ auth = NoAuth
    /\ lighthouse = NoLighthouse
    /\ page = NoPage
    /\ flat = NoFlat
    /\ limiter = NoLimiter

\* dispatch up to its call_next or its raise (rate_limit.py 26-51).
Dispatch(client_ip, path) ==
    /\ limiter.calls < MaxCalls
    /\ LET d == dispatch(limiter.requests, path, client_ip, limiter.clock)
           passed == ~d.raised /\ path \notin ExemptPaths
       IN  limiter' =
             [ limiter EXCEPT
                 !.requests = d.requests,
                 !.admitted = IF passed
                                THEN [@ EXCEPT ![client_ip] = Append(@, limiter.clock)]
                                ELSE @,
                 !.calls = @ + 1,
                 !.in_flight = IF d.raised THEN @ ELSE @ + 1,
                 !.last = [client |-> client_ip, path |-> path, time |-> limiter.clock,
                           status |-> IF d.raised THEN 429 ELSE 200] ]
    /\ UNCHANGED <<pipeline, calc, probe, auth, lighthouse, page, flat>>

\* call_next returns and dispatch returns its response (rate_limit.py 51-52).
CallNextReturns ==
    /\ limiter.in_flight > 0
    /\ limiter' = [limiter EXCEPT !.in_flight = @ - 1]
    /\ UNCHANGED <<pipeline, calc, probe, auth, lighthouse, page, flat>>

ClockAdvances ==
    /\ limiter.clock + ClockStep <= MaxClock
    /\ limiter' = [limiter EXCEPT !.clock = @ + ClockStep]
    /\ UNCHANGED <<pipeline, calc, probe, auth, lighthouse, page, flat>>

NextLimiter ==
    \/ \E c \in Clients, p \in LimiterPaths : Dispatch(c, p)
    \/ CallNextReturns
    \/ ClockAdvances

SpecLimiter == InitLimiter /\ [][NextLimiter]_vars

\* ------------------------------------------------------------------ claims
\* A record's four performance fields, against null and against a metrics
\* dictionary.
PerfNull(rec) == \A f \in PerfFields : IsNone(rec[f])

PerfIs(rec, metrics) ==
    /\ rec.lighthouse_performance    = metrics.performance
    /\ rec.lighthouse_accessibility  = metrics.accessibility
    /\ rec.lighthouse_seo            = metrics.seo
    /\ rec.lighthouse_best_practices = metrics.best_practices

\* A read of report id has just been answered with the report.
ReadOf(id) ==
    response.op = "get_report" /\ response.status = 200 /\ response.report_id = id

\* C1: for a guest submission of a reachable URL, the report the analyze
\* request has just created has owner null, status pending and the four
\* performance fields null; and once the enrichment job of that report has
\* completed its update, a read of the report by id shows status completed
\* and the four performance fields as fetched.
C1_GuestReportLifecycle ==
    /\ (response.op = "analyze" /\ response.status = 201 /\ IsNone(response.current_user)) =>
         LET row == reports[Val(response.report_id)] IN
           /\ IsNone(row.user_id)
           /\ row.lighthouse_status = "pending"
           /\ PerfNull(row)
    /\ \A r \in Requests :
         ( /\ IsNone(request[r].user)
           /\ job[r].outcome = "updated"
           /\ ReadOf(Val(job[r].report_id)) ) =>
             LET body == Val(response.body) IN
               /\ "lighthouse_status" \in DOMAIN body
               /\ body["lighthouse_status"] = "completed"
               /\ PerfIs(body, job[r].metrics)

\* C1, a guest's report is read after its job has updated it.
C1_Witness ==
    \E r \in Requests :
      /\ IsNone(request[r].user)
      /\ job[r].outcome = "updated"
      /\ ReadOf(Val(job[r].report_id))
      /\ ~IsNone(job[r].metrics.performance)

\* C1, what does hold of the lifecycle: the row the handler read has status
\* completed and the fetched values, and the body carries those values.
C1_RowLifecycle ==
    /\ (response.op = "analyze" /\ response.status = 201 /\ IsNone(response.current_user)) =>
         LET row == reports[Val(response.report_id)] IN
           /\ IsNone(row.user_id)
           /\ row.lighthouse_status = "pending"
           /\ PerfNull(row)
    /\ \A r \in Requests :
         ( /\ IsNone(request[r].user)
           /\ job[r].outcome = "updated"
           /\ ReadOf(Val(job[r].report_id)) ) =>
             /\ Val(response.report).lighthouse_status = "completed"
             /\ PerfIs(Val(response.report), job[r].metrics)
             /\ PerfIs(Val(response.body), job[r].metrics)

\* C2: when the probe stage of an analyze request fails, the request ends
\* with a CrawlerException (status 400), the reports and the jobs are as they
\* were, only the probe stage has been entered, and the request takes no
\* further step.
C2_ProbeFailureIsFatal ==
    [][\A r \in Requests :
         /\ (request[r].pc = "idle" /\ request'[r].pc = "failed") =>
              /\ request'[r].error = "CrawlerException"
              /\ response'.op = "analyze" /\ response'.status = 400
              /\ IsNone(response'.report_id)
              /\ reports' = reports /\ next_id' = next_id /\ job' = job
              /\ request'[r].stages = {"probe"}
         /\ request[r].error = "CrawlerException" =>
              /\ request'[r] = request[r]
              /\ job'[r] = NoJob /\ job[r] = NoJob
              /\ IsNone(request[r].report_id)]_vars

\* C2, a probe has just failed while a report of an earlier request exists.
C2_Witness ==
    /\ response.op = "analyze" /\ response.status = 400
    /\ \E r \in Requests : request[r].error = "CrawlerException"
    /\ DOMAIN reports # {}

\* C3: an analyze request whose probe stage succeeded enters the persist
\* stage whatever the Insight Generator gave.
C3_AugmentNeverAborts ==
    \A r \in Requests :
      ("augment" \in request[r].stages /\ request[r].pc # "augment") =>
        "persist" \in request[r].stages

\* C3, a request has ended in step 3 without entering the persist stage.
C3_Witness ==
    \E r \in Requests :
      /\ request[r].pc = "failed"
      /\ request[r].error \in {"AttributeError", "TypeError"}
      /\ request[r].stages = {"probe", "augment"}
      /\ response.op = "analyze" /\ response.status = 500

\* C3, what does hold: a missing key, an exception of the chain, text that is
\* not JSON and a reply of the expected shape all reach the persist stage.
C3_CaughtOutcomesPersist ==
    \A llm \in LlmOutcomes, key \in {None, Some("key")} :
      (IsNone(key) \/ llm.kind # "json" \/
         (llm.json.t = "dict" /\ ~IsNone(llm.json.suggestions)
                              /\ Val(llm.json.suggestions).t = "list")) =>
        ProcessStep(analyze_with_ai(key, llm)).ok

CreationFields == ResponseFields \ PerfFields

\* C6: in every step, a report that exists before and after keeps the value
\* of every field other than the four performance fields and the status; and
\* if it changes at all, the step is the one in which the job scheduled for
\* that report ends, and the report was still as created (status pending,
\* performance fields null), so it is written at most once.
C6_ReportsAreImmutableButForEnrichment ==
    [][\A id \in DOMAIN reports \cap DOMAIN reports' :
         /\ \A f \in CreationFields : reports'[id][f] = reports[id][f]
         /\ reports'[id] # reports[id] =>
              /\ \E r \in Requests : /\ job[r].report_id = Some(id)
                                     /\ job[r].pc = "queued" /\ job'[r].pc = "done"
              /\ reports[id].lighthouse_status = "pending"
              /\ PerfNull(reports[id])
              /\ reports'[id].lighthouse_status \in {"completed", "failed"}
              /\ response' = NoResponse]_vars

\* C6, one job has stored scores in its report and another has marked its
\* report failed.
C6_Witness ==
    \E r, q \in Requests :
      /\ job[r].outcome = "updated" /\ Exists(Val(job[r].report_id))
      /\ ~PerfNull(reports[Val(job[r].report_id)])
      /\ job[q].outcome = "marked_failed" /\ Exists(Val(job[q].report_id))
      /\ reports[Val(job[q].report_id)].lighthouse_status = "failed"

\* C7: a job exists only for a committed report with an id; the analyze
\* request answers with the report while the job is still queued; a job's
\* write finds the report as persisted; and a read of the report while its
\* job is queued shows status pending and the four performance fields null.
C7_EnrichmentAfterPersist ==
    /\ \A r \in Requests :
         job[r].pc # "none" =>
           /\ ~IsNone(job[r].report_id)
           /\ Val(job[r].report_id) < next_id
           /\ request[r].pc = "done" /\ request[r].report_id = job[r].report_id
    /\ (response.op = "analyze" /\ response.status = 201) =>
         \E r \in Requests : /\ job[r].report_id = response.report_id
                             /\ job[r].pc = "queued"
                             /\ Val(response.report) = reports[Val(response.report_id)]
    /\ \A r \in Requests :
         (job[r].pc = "queued" /\ ReadOf(Val(job[r].report_id))) =>
           LET body == Val(response.body) IN
             /\ "lighthouse_status" \in DOMAIN body
             /\ body["lighthouse_status"] = "pending"
             /\ PerfNull(body)

\* C7, a report is read while its job is queued.
C7_Witness ==
    \E r \in Requests : job[r].pc = "queued" /\ ReadOf(Val(job[r].report_id))

\* C7, what does hold: the order of persist, answer and job, and the row and
\* the body of a read while the job is queued.
C7_RowOrder ==
    /\ \A r \in Requests :
         job[r].pc # "none" =>
           /\ ~IsNone(job[r].report_id)
           /\ Val(job[r].report_id) < next_id
           /\ request[r].pc = "done" /\ request[r].report_id = job[r].report_id
    /\ (response.op = "analyze" /\ response.status = 201) =>
         \E r \in Requests : /\ job[r].report_id = response.report_id
                             /\ job[r].pc = "queued"
                             /\ Val(response.report) = reports[Val(response.report_id)]
    /\ \A r \in Requests :
         (job[r].pc = "queued" /\ ReadOf(Val(job[r].report_id))) =>
           /\ Val(response.report).lighthouse_status = "pending"
           /\ PerfNull(Val(response.report))
           /\ PerfNull(Val(response.body))

C9_SweepDeletesOnlyOldGuestReports ==
    [][\A id \in DOMAIN reports :
         id \notin DOMAIN reports' =>
           /\ response'.op = "cleanup" /\ response'.status = 200
           /\ ~response'.dry_run
           /\ IsNone(reports[id].user_id)
           /\ reports[id].created_at < now - response'.retention_hours]_vars

\* C9, a sweep with threshold 0 has just deleted a report and left a guest
\* report created in this hour.
C9_Witness ==
    /\ response.op = "cleanup" /\ response.status = 200 /\ ~response.dry_run
    /\ response.deleted_count > 0 /\ response.retention_hours = 0
    /\ \E id \in DOMAIN reports : IsNone(reports[id].user_id) /\ reports[id].created_at = now

\* The guest reports of a table that a sweep with this threshold may delete at
\* this time.
Eligible(table, hours, time) ==
    { id \in DOMAIN table : IsNone(table[id].user_id) /\ table[id].created_at < time - hours }

\* A sweep has just been answered.
Swept(resp, dry_run) ==
    resp.op = "cleanup" /\ resp.status = 200 /\ resp.dry_run = dry_run

C11_PersistFailureIsDatabaseException ==
    [][\A r \in Requests :
         /\ ( /\ request[r].pc = "augment"
              /\ request'[r].pc = "failed"
              /\ "persist" \in request'[r].stages ) =>
                /\ request'[r].error = "DatabaseException"
                /\ response'.op = "analyze"
                /\ response'.error = "DatabaseException"
                /\ response'.status = 500
                /\ response'.status # StatusOf("CrawlerException")
                /\ job' = job
         /\ ( /\ request[r].pc # request'[r].pc
              /\ request'[r].error = "CrawlerException" ) =>
                /\ request'[r].stages = {"probe"}
                /\ response'.status = 400]_vars

\* C11, a request that reached the persist stage has ended with
\* DatabaseException, answered with status 500.
C11_Witness ==
    \E r \in Requests :
      /\ request[r].pc = "failed"
      /\ request[r].error = "DatabaseException"
      /\ "persist" \in request[r].stages
      /\ response.op = "analyze"
      /\ response.status = 500

\* C19, an analyze request that gets through the probe and the persist stage
\* adds exactly one row, under an id no row has and none had before, leaves
\* every other row in place whatever its URL and owner, and the new row's
\* owner is the caller's principal id, or null for a guest.
C19_EveryAnalysisIsANewReport ==
    [][\A r \in Requests :
         (request[r].pc = "augment" /\ request'[r].pc = "done") =>
           LET id == Val(request'[r].report_id) IN
             /\ id \notin DOMAIN reports
             /\ \A i \in DOMAIN reports : i < id
             /\ id = next_id /\ next_id' > id
             /\ DOMAIN reports' = DOMAIN reports \cup {id}
             /\ \A i \in DOMAIN reports : reports'[i] = reports[i]
             /\ reports'[id].id = id
             /\ reports'[id].url = request[r].url
             /\ reports'[id].user_id = request[r].user
             /\ response'.status = 201
             /\ response'.current_user = request[r].user
             /\ response'.report_id = Some(id)]_vars

\* C19, an analysis by a principal has just created a report while an earlier
\* report of the same URL by the same principal exists.
C19_Witness ==
    /\ response.op = "analyze"
    /\ response.status = 201
    /\ ~IsNone(response.current_user)
    /\ \E i \in DOMAIN reports :
         /\ i # Val(response.report_id)
         /\ Exists(Val(response.report_id))
         /\ reports[i].url = reports[Val(response.report_id)].url
         /\ reports[i].user_id = response.current_user
         /\ reports[Val(response.report_id)].user_id = response.current_user

\* ------------------------------------------------- claims, the task's end
Started(r)  == job[r].pc = "queued" /\ ~IsNone(job[r].db)
JobId(r)    == IF IsNone(job[r].report_id) THEN 0 ELSE Val(job[r].report_id)
JobRow(r)   == reports[JobId(r)]
JobStep(r)  == job[r].pc = "queued" /\ job'[r].pc = "done"

\* C25, with the tasks scheduled fairly every task that has started ends, and
\* once it has ended its report, if it is still there, leaves pending.
C25_StatusLeavesPending ==
    \A r \in Requests :
      /\ Started(r) ~> job[r].pc = "done"
      /\ (job[r].pc = "done" /\ Exists(JobId(r)))
           ~> (~Exists(JobId(r)) \/ JobRow(r).lighthouse_status # "pending")

\* C25, a task has ended after its update and its failed-mark both raised,
\* and its report is there and pending.
C25_Witness ==
    \E r \in Requests :
      /\ job[r].pc = "done"
      /\ job[r].outcome = "rolled_back"
      /\ Exists(Val(job[r].report_id))
      /\ JobRow(r).lighthouse_status = "pending"

\* C25 as the code has it: every task that has started ends, and the report
\* of a task that has ended, if it is still there, has left pending unless
\* the task's update and its failed-mark both raised.
C25_StartedJobsTerminate ==
    \A r \in Requests :
      /\ Started(r) ~> job[r].pc = "done"
      /\ []( (job[r].pc = "done" /\ Exists(Val(job[r].report_id))) =>
               (JobRow(r).lighthouse_status = "pending" <=> job[r].outcome = "rolled_back") )

\* C26, a task's session is the one the task created, never the session of
\* a request: it is open from the task's start to its end and closed once
\* the task has ended, whichever way it ended.
C26_JobSessionIsOwnAndClosed ==
    \A r \in Requests :
      /\ job[r].pc = "none" => IsNone(job[r].db)
      /\ ~IsNone(job[r].db) =>
           /\ Val(job[r].db).owner = <<"task", r>>
           /\ Val(job[r].db).open <=> job[r].pc = "queued"
      /\ job[r].pc = "done" =>
           /\ job[r].outcome \in {"updated", "not_found", "marked_failed", "gone", "rolled_back"}
           /\ ~IsNone(job[r].db)
           /\ ~Val(job[r].db).open

\* C26, one task has ended without finding its report and another after
\* both its writes raised, and the sessions of both are closed.
C26_Witness ==
    \E r, q \in Requests :
      /\ job[r].pc = "done" /\ job[r].outcome = "not_found"
      /\ job[q].pc = "done" /\ job[q].outcome = "rolled_back"
      /\ ~Val(job[r].db).open /\ ~Val(job[q].db).open

\* C27, a task whose report is gone when its fetch returns writes nothing:
\* it ends as not found (or, when its query raised, in the except branch
\* without a row), and the table after the step is the table before it; the
\* start of a task writes nothing either.
C27_DeletedReportIsNotWritten ==
    [][\A r \in Requests :
         /\ (JobStep(r) /\ ~Exists(Val(job[r].report_id))) =>
               /\ job'[r].outcome \in {"not_found", "gone", "rolled_back"}
               /\ reports' = reports
         /\ (job[r].db # job'[r].db /\ ~JobStep(r)) => reports' = reports]_vars

\* C27, the task of a guest's report has ended as not found after the sweep
\* deleted the report, while another report is in the table.
C27_Witness ==
    \E r \in Requests :
      /\ job[r].pc = "done"
      /\ job[r].outcome = "not_found"
      /\ IsNone(request[r].user)
      /\ ~Exists(Val(job[r].report_id))
      /\ DOMAIN reports # {}

AnalyzeStep(r) == request[r].pc = "augment" /\ request'[r].pc # "augment"

\* C28, a task is added only for a report that was saved: a request that
\* fails adds no report and no task, and a request that succeeds adds one
\* task, for the id of the report it created.
C28_JobOnlyForPersisted ==
    [][\A r \in Requests :
         AnalyzeStep(r) =>
           /\ request'[r].pc = "failed" => reports' = reports /\ job' = job
           /\ request'[r].pc = "done" =>
                /\ job[r].pc = "none"
                /\ job' = [job EXCEPT ![r] = add_task(request'[r].report_id, request[r].url)]
                /\ DOMAIN reports' = DOMAIN reports \cup {Val(request'[r].report_id)}
                /\ Val(request'[r].report_id) \notin DOMAIN reports]_vars

\* C28, a request has failed in the persist stage after the commit, and the
\* report it saved is in the table without a task.
C28_Witness ==
    \E r \in Requests :
      /\ request[r].pc = "failed"
      /\ request[r].error = "DatabaseException"
      /\ job[r].pc = "none"
      /\ response.op = "analyze" /\ response.status = 500
      /\ DOMAIN reports # {}
      /\ \A q \in Requests : job[q].pc = "none"

\* C28 as the code has it: a request that fails adds no task, and adds a
\* report only when the failure came after the commit; a request that
\* succeeds adds one task, for the id of the report it created; every task
\* is for a report that was saved.
C28_JobForCreatedReport ==
    /\ [][\A r \in Requests :
            AnalyzeStep(r) =>
              /\ request'[r].pc = "failed" =>
                   /\ job' = job
                   /\ reports' # reports =>
                        /\ "persist" \in request'[r].stages
                        /\ DOMAIN reports' = DOMAIN reports \cup {next_id}
              /\ request'[r].pc = "done" =>
                   /\ job[r].pc = "none"
                   /\ job' = [job EXCEPT ![r] = add_task(request'[r].report_id, request[r].url)]
                   /\ DOMAIN reports' = DOMAIN reports \cup {Val(request'[r].report_id)}
                   /\ Val(request'[r].report_id) \notin DOMAIN reports]_vars
    /\ [](\A r \in Requests :
            job[r].pc # "none" =>
              /\ request[r].pc = "done"
              /\ job[r].report_id = request[r].report_id
              /\ Val(job[r].report_id) < next_id)

\* ----------------------------------------------- claims, score calculator
Returned == calc.pc = "returned"

\* The score of a call given as one record of arguments.
ScoreOf(s) ==
    calculate_seo_score(s.title, s.meta_description, s.h1_count, s.h2_count,
                        s.missing_alt_count, s.image_count,
                        s.has_meta_viewport, s.has_canonical)

\* C12, for every call of the calculator with valid signals the result is an
\* integer from 0 to 100.
C12_ScoreInRange == Returned => calc.score \in 0..100

\* C12, the calculator has returned for a page with every defect at once.
C12_Witness ==
    /\ Returned
    /\ calc.args = Args(None, None, 0, 0, MaxImages, MaxImages, FALSE, FALSE)
    /\ calc.score = 15

\* The arguments of an ideal page, and a call's arguments with the signals
\* of every category but one replaced by the ideal page's.
Ideal == Args(Some(Str(30)), Some(Str(120)), 1, 1, 0, 0, TRUE, TRUE)

CategoryFields ==
    [ title |-> {"title"}, meta |-> {"meta_description"}, h1 |-> {"h1_count"},
      h2 |-> {"h2_count"}, alt |-> {"missing_alt_count", "image_count"},
      viewport |-> {"has_meta_viewport"}, canonical |-> {"has_canonical"} ]

Only(category, s) ==
    [ f \in DOMAIN s |-> IF f \in CategoryFields[category] THEN s[f] ELSE Ideal[f] ]

\* What one category alone takes from the score of the ideal page.
Alone(category, s) == ScoreOf(Ideal) - ScoreOf(Only(category, s))

\* The deduction table: the amounts a category can take.
DeductionTable ==
    [ title |-> {0, 5, 15}, meta |-> {0, 5, 20}, h1 |-> {0, 10, 15}, h2 |-> {0, 5},
      alt |-> {0, 5, 10, 15}, viewport |-> {0, 10}, canonical |-> {0, 5} ]

RECURSIVE SumAlone(_, _)
SumAlone(order, s) ==
    IF order = <<>> THEN 0 ELSE Alone(Head(order), s) + SumAlone(Tail(order), s)

\* Orders of evaluating the seven categories: the rotations of the code's
\* order and their reversals.
Rotation(k) == [i \in 1..7 |-> CategoryOrder[((i + k - 1) % 7) + 1]]
Reversed(o) == [i \in 1..7 |-> o[8 - i]]
Orders == {Rotation(k) : k \in 0..6} \cup {Reversed(Rotation(k)) : k \in 0..6}

\* C13, the score is 100 minus the sum of the amounts the seven categories
\* take each on its own, every amount is one of its category's entries of the
\* deduction table, and running the categories in another order gives the
\* same score.
C13_IndependentDeductions ==
    Returned =>
      /\ calc.score = 100 - SumAlone(CategoryOrder, calc.args)
      /\ \A c \in DOMAIN DeductionTable : Alone(c, calc.args) \in DeductionTable[c]
      /\ \A o \in Orders : Clamp(Deduct(o, calc.args, 100)) = calc.score

\* C13, the calculator has returned for a page with defects in more than one
\* category.
C13_Witness ==
    /\ Returned
    /\ Alone("title", calc.args) = 5
    /\ Alone("h1", calc.args) = 10
    /\ Alone("alt", calc.args) = 10
    /\ calc.score = 75

IsIdeal(s) ==
    /\ ~IsNone(s.title) /\ Len(Val(s.title)) \in 30..60
    /\ ~IsNone(s.meta_description) /\ Len(Val(s.meta_description)) \in 120..160
    /\ s.h1_count = 1
    /\ s.h2_count >= 1
    /\ s.missing_alt_count = 0
    /\ s.has_meta_viewport
    /\ s.has_canonical

\* C14, an all-ideal page scores exactly 100.
C14_IdealScores100 == (Returned /\ IsIdeal(calc.args)) => calc.score = 100

\* C14, the calculator has returned for an ideal page whose title and
\* description have the extreme lengths allowed and that has images.
C14_Witness ==
    /\ Returned
    /\ IsIdeal(calc.args)
    /\ Len(Val(calc.args.title)) = 30
    /\ Len(Val(calc.args.meta_description)) = 160
    /\ calc.args.image_count > 0

\* C15, a page with no title, no description, no H1, no H2, no viewport, no
\* canonical link and no image scores exactly 30.
C15_BarePageScores30 ==
    (Returned /\ calc.args = Args(None, None, 0, 0, 0, 0, FALSE, FALSE)) =>
        calc.score = 30

\* C15, the calculator has returned for that page.
C15_Witness ==
    /\ Returned
    /\ IsNone(calc.args.title) /\ IsNone(calc.args.meta_description)
    /\ calc.args.h1_count = 0 /\ calc.args.h2_count = 0
    /\ calc.args.image_count = 0
    /\ ~calc.args.has_meta_viewport /\ ~calc.args.has_canonical

\* What the images of a call take from its score: the score of the same call
\* without images, less the score returned.
AltTaken == ScoreOf([calc.args EXCEPT !.image_count = 0, !.missing_alt_count = 0]) - calc.score

\* C16, the images take 15 when more than half of them lack alt text, 10 when
\* more than a fifth and at most half do, 5 when some and at most a fifth do,
\* and nothing when none does or when there is no image; 8 of 10 and 6 of 10
\* take 15 alike, 1 of 10 takes 5.
C16_AltDeductionIsAStepFunction ==
    Returned =>
      LET missing == calc.args.missing_alt_count
          total   == calc.args.image_count
      IN  /\ total = 0 => AltTaken = 0
          /\ (total > 0 /\ missing = 0) => AltTaken = 0
          /\ (total > 0 /\ missing > 0 /\ 5 * missing <= total) => AltTaken = 5
          /\ (total > 0 /\ 5 * missing > total /\ 2 * missing <= total) => AltTaken = 10
          /\ (total > 0 /\ 2 * missing > total) => AltTaken = 15
          /\ (total = 10 /\ missing \in {6, 8}) => AltTaken = 15
          /\ (total = 10 /\ missing = 1) => AltTaken = 5

\* C16, the calculator has returned for a page where exactly half of ten
\* images lack alt text.
C16_Witness ==
    /\ Returned
    /\ calc.args.image_count = 10
    /\ calc.args.missing_alt_count = 5
    /\ AltTaken = 10

\* The score of the returned call before the clamp.
Unclamped == Deduct(CategoryOrder, calc.args, 100)

\* C29, the deductions of a call add up to at most 85, so the result is at
\* least 15 and a multiple of 5, and the clamp returns what it is given.
C29_ClampIsIdle ==
    Returned =>
      /\ 100 - Unclamped \in 0..85
      /\ calc.score >= 15
      /\ calc.score % 5 = 0
      /\ calc.score = Unclamped

\* C29, the calculator has returned for a page with every defect at once:
\* the deductions are 85 and the clamp leaves the 15.
C29_Witness ==
    /\ Returned
    /\ calc.args.title = None
    /\ calc.args.h1_count = 0
    /\ Unclamped = 15
    /\ calc.score = 15

\* ----------------------------------------------------- claims, the prober
Invalid(url) == urlparse(url).scheme = "" \/ urlparse(url).netloc = ""

\* C17, for a URL without scheme or without host the prober issues no
\* request at any time, neither GET nor HEAD, and fails with the
\* invalid-target CrawlerException.
C17_InvalidTargetBeforeNetwork ==
    Invalid(probe.url) =>
      /\ probe.requests = <<>>
      /\ probe.pc \in {"none", "called", "returned"}
      /\ probe.pc = "returned" =>
           /\ ~Val(probe.result).ok
           /\ Val(probe.result).error = "CrawlerException"
           /\ Val(probe.result).cause = "invalid_url"

\* C17, the prober has returned for a URL that has a scheme and no host.
C17_Witness ==
    /\ probe.pc = "returned"
    /\ urlparse(probe.url).scheme # ""
    /\ urlparse(probe.url).netloc = ""
    /\ probe.requests = <<>>

\* The primary fetch of a returned call failed.
FetchFailed == probe.pc = "returned" /\ ~Val(probe.result).ok

\* C18, the primary fetch of a valid URL fails exactly when the response is
\* not 2xx, a client error occurs or the timeout expires, every 2xx response
\* yields the metrics, and a failure carries no metrics.
C18_FetchFailsExactlyOffNon2xx ==
    (probe.pc = "returned" /\ ~Invalid(probe.url)) =>
      LET get == probe.net.get
          bad == \/ get.kind \in {"client_error", "timeout"}
                 \/ get.kind = "response" /\ get.status \notin 200..299
      IN  /\ FetchFailed <=> bad
          /\ FetchFailed => /\ Val(probe.result).error = "CrawlerException"
                            /\ IsNone(Val(probe.result).data)
          /\ ~FetchFailed => ~IsNone(Val(probe.result).data)

\* C18, the prober has returned with a failure for a response with status 204.
C18_Witness ==
    /\ FetchFailed
    /\ ~Invalid(probe.url)
    /\ probe.net.get.kind = "response"
    /\ probe.net.get.status = 204

\* C18 as the code has it: the fetch fails exactly when the status is not
\* 200, a client error occurs, the timeout expires or the body of a 200
\* cannot be read; every failure is a CrawlerException without metrics.
C18_FetchFailsOffStatus200 ==
    (probe.pc = "returned" /\ ~Invalid(probe.url)) =>
      LET get == probe.net.get
          bad == \/ get.kind \in {"client_error", "timeout"}
                 \/ get.kind = "response" /\ get.status # 200
                 \/ get.kind = "response" /\ ~get.readable
      IN  /\ FetchFailed <=> bad
          /\ FetchFailed => /\ Val(probe.result).error = "CrawlerException"
                            /\ IsNone(Val(probe.result).data)
                            /\ probe.requests = << <<"GET", probe.url>> >>
          /\ ~FetchFailed => /\ ~IsNone(Val(probe.result).data)
                             /\ Len(probe.requests) = 3

\* ------------------------------------------- claims, optional authentication
\* The token of a call that carries one.
TokenOf(a) == Val(a.header.token)

\* C20, optional authentication never raises; it returns None when the
\* credential is absent, the token is invalid, expired or revoked or carries
\* no e-mail, Firebase is not initialised, or the user is deactivated; and
\* what it returns otherwise is the active user of a valid token.
C20_OptionalAuthNeverFails ==
    auth.pc = "returned" =>
      /\ auth.exc = ""
      /\ auth.header.scheme # "bearer" => IsNone(auth.user)
      /\ ~auth.firebase_initialized => IsNone(auth.user)
      /\ auth.header.scheme = "bearer" =>
           /\ TokenOf(auth).verdict # "valid" => IsNone(auth.user)
           /\ IsNone(TokenOf(auth).email) => IsNone(auth.user)
           /\ TokenOf(auth).uid = "uid-inactive" => IsNone(auth.user)
      /\ ~IsNone(auth.user) =>
           /\ auth.header.scheme = "bearer"
           /\ auth.firebase_initialized
           /\ TokenOf(auth).verdict = "valid"
           /\ ~IsNone(TokenOf(auth).email)
           /\ Val(auth.user) \in DOMAIN auth.users
           /\ auth.users[Val(auth.user)].firebase_uid = TokenOf(auth).uid
           /\ auth.users[Val(auth.user)].is_active

\* C20, a call with an expired token has returned None with Firebase
\* initialised and the database working.
C20_Witness ==
    /\ auth.pc = "returned"
    /\ auth.header.scheme = "bearer"
    /\ TokenOf(auth).verdict = "expired"
    /\ auth.firebase_initialized
    /\ auth.db.query_ok
    /\ IsNone(auth.user)

\* --------------------------------------------------- claims, the safe fetch
\* C21, the safe fetch always returns the four scores: all four null when the
\* call failed in any way, and for a valid reply each score is its category's
\* score times 100, or null when that category has none, whatever the other
\* categories have.
C21_SafeFetchReturnsNulls ==
    lighthouse.pc = "returned" =>
      /\ DOMAIN lighthouse.metrics = DOMAIN NoMetrics
      /\ lighthouse.api.kind # "ok" =>
           /\ lighthouse.inner_raised
           /\ lighthouse.metrics = NoMetrics
      /\ lighthouse.api.kind = "ok" =>
           \A c \in DOMAIN NoMetrics :
             lighthouse.metrics[c] =
               IF IsNone(lighthouse.api.categories[c]) THEN None
               ELSE Some(Val(lighthouse.api.categories[c]) * 10)

\* C21, the safe fetch has returned for a valid reply in which only the
\* accessibility category is missing.
C21_Witness ==
    /\ lighthouse.pc = "returned"
    /\ lighthouse.api.kind = "ok"
    /\ IsNone(lighthouse.metrics.accessibility)
    /\ lighthouse.metrics.performance = Some(9550)
    /\ lighthouse.metrics.seo = Some(0)
    /\ ~IsNone(lighthouse.metrics.best_practices)

\* ------------------------------------------- claims, the metric extractors
Spaces(n) == [i \in 1..n |-> " "]

\* C22, the extracted title is never absent or empty: it is the sentinel
\* when the document has no title element or the element has no text or
\* only whitespace, and otherwise it is the element's text without the
\* whitespace at its ends.
C22_TitleOrSentinel ==
    page.pc \in {"seo", "returned"} =>
      LET tag  == page.title_tag
          text == IF ~IsNone(tag) /\ ~IsNone(Val(tag)) THEN Val(Val(tag)) ELSE <<>>
          blank == \A i \in 1..Len(text) : text[i] = " "
      IN  /\ page.title # <<>>
          /\ blank => page.title = <<"No Title Found">>
          /\ ~blank =>
               /\ Head(page.title) # " "
               /\ page.title[Len(page.title)] # " "
               /\ \E a, b \in 0..Len(text) :
                    text = Spaces(a) \o page.title \o Spaces(b)

\* C22, the extractor has returned the text of a title that had whitespace
\* on both sides.
C22_Witness ==
    /\ page.pc = "seo"
    /\ page.title_tag = Some(Some(<<" ", "x", " ">>))
    /\ page.title = <<"x">>

\* The host of a netloc: lower case, without the port.
HostOf(netloc) ==
    IF netloc \in {"example.com", "EXAMPLE.com", "example.com:443"} THEN "example.com"
    ELSE netloc

\* An href the loop passes over: empty, a fragment, javascript: or mailto:.
Excluded(raw) ==
    \/ strip(raw) = <<>>
    \/ startswith(strip(raw), <<"#">>)
    \/ startswith(strip(raw), <<"javascript", ":">>)
    \/ startswith(strip(raw), <<"mailto", ":">>)

ResolvedNetloc(raw) == urlparse(urljoin(GoodUrl, strip(raw))).netloc

Counted    == { i \in 1..Len(page.hrefs) : ~Excluded(page.hrefs[i]) }

\* C23, an excluded href is in neither count, and every other href is
\* counted once: as internal when the resolved href has the page's host or
\* no host, as external otherwise.
C23_LinksByHost ==
    page.pc = "returned" =>
      LET same == { i \in Counted :
                      \/ HostOf(ResolvedNetloc(page.hrefs[i])) = HostOf(urlparse(GoodUrl).netloc)
                      \/ ResolvedNetloc(page.hrefs[i]) = "" }
      IN  /\ page.internal_links_count = Cardinality(same)
          /\ page.external_links_count = Cardinality(Counted \ same)

\* C23, the extractor has returned for a page whose only link names the
\* page's own host in capitals, and has counted it as external.
C23_Witness ==
    /\ page.pc = "returned"
    /\ page.hrefs = << <<"https", ":", "//", "EXAMPLE.com", "/about">> >>
    /\ page.internal_links_count = 0
    /\ page.external_links_count = 1

\* C23 as the code has it: the resolved href's netloc is compared with the
\* page's as a string; "/about" is internal, "https://other.com/x" external,
\* "#section" and "mailto:a@b.com" are not counted.
C23_LinksByNetloc ==
    page.pc = "returned" =>
      LET same == { i \in Counted :
                      \/ ResolvedNetloc(page.hrefs[i]) = urlparse(GoodUrl).netloc
                      \/ ResolvedNetloc(page.hrefs[i]) = "" }
      IN  /\ page.internal_links_count = Cardinality(same)
          /\ page.external_links_count = Cardinality(Counted \ same)
          /\ page.hrefs = << <<"/about">> >> =>
               page.internal_links_count = 1 /\ page.external_links_count = 0
          /\ page.hrefs = << <<"https", ":", "//", "other.com", "/x">> >> =>
               page.internal_links_count = 0 /\ page.external_links_count = 1
          /\ page.hrefs = << <<"#", "section">>, <<"mailto", ":", "a@b.com">> >> =>
               page.internal_links_count = 0 /\ page.external_links_count = 0

\* ------------------------------------------------- claims, the flattening
Text(o) == IF IsNone(o) THEN <<>> ELSE Val(o).s

\* C24, the flattened list has the length and order of the suggestion list:
\* a string is kept, an object becomes "title: description" when its title
\* is non-empty and its description alone otherwise, and every element of
\* the result is a string.
C24_FlattenedAreStrings ==
    flat.pc = "returned" =>
      /\ Len(flat.processed) = Len(flat.suggestions)
      /\ \A i \in 1..Len(flat.suggestions) :
           LET x == flat.suggestions[i]
               y == flat.processed[i]
           IN  /\ y.t = "str"
               /\ x.t = "str" => y.s = x.s
               /\ x.t = "dict" /\ Text(x.title) # <<>> =>
                    \E d \in {<<>>, <<"Shorten it">>, <<"None">>} :
                        y.s = Text(x.title) \o <<": ">> \o d
               /\ x.t = "dict" /\ Text(x.title) = <<>> => y.s = Text(x.description)

\* C24, the flattening has returned for a list whose only element is an
\* object without a title and with a null description, and the element of
\* the result is the null.
C24_Witness ==
    /\ flat.pc = "returned"
    /\ flat.suggestions = << SDict(None, Some(JNull)) >>
    /\ flat.processed = << JNull >>

\* C24 as the code has it: length and order are kept, a string is kept, a
\* titled object becomes the string "title: description", and an object
\* without a non-empty title becomes its description as it is, '' when the
\* key is missing: a string exactly when the description is one.
C24_FlattenedByDescription ==
    flat.pc = "returned" =>
      /\ Len(flat.processed) = Len(flat.suggestions)
      /\ \A i \in 1..Len(flat.suggestions) :
           LET x == flat.suggestions[i]
               y == flat.processed[i]
           IN  /\ x.t = "str" => y = JStr(x.s)
               /\ x.t = "dict" /\ Text(x.title) # <<>> =>
                    /\ y.t = "str"
                    /\ x.description = Some(JStr(<<"Shorten it">>)) =>
                         y.s = <<"Title", ": ", "Shorten it">>
                    /\ x.description \in {None, Some(JStr(<<>>))} =>
                         y.s = <<"Title", ": ">>
                    /\ x.description = Some(JNull) => y.s = <<"Title", ": ", "None">>
               /\ x.t = "dict" /\ Text(x.title) = <<>> =>
                    /\ IsNone(x.description) => y = JStr(<<>>)
                    /\ ~IsNone(x.description) => y = Val(x.description)
                    /\ y.t = "str" <=> x.description # Some(JNull)

\* ------------------------------------------------ claims, the rate limiter
ClockReadings == { n * ClockStep : n \in 0..(MaxClock \div ClockStep) }

\* The requests of client c that were passed on in the 60 seconds that end
\* at t.
InWindow(c, t) ==
    { i \in 1..Len(limiter.admitted[c]) :
        t - 60 < limiter.admitted[c][i] /\ limiter.admitted[c][i] <= t }

IsSuffix(s, t) == \E k \in 0..Len(t) : s = SubSeq(t, k + 1, Len(t))

\* What holds in every state of the limiter.
C30_Windows ==
    /\ \A c \in Clients, t \in ClockReadings :
          Cardinality(InWindow(c, t)) <= requests_per_minute
    /\ \A c \in Clients : IsSuffix(limiter.requests[c], limiter.admitted[c])
    /\ limiter.last.path \in ExemptPaths => limiter.last.status = 200

\* What holds of every dispatch.
C30_Step ==
    limiter'.calls # limiter.calls =>
      LET c == limiter'.last.client
      IN  /\ limiter'.last.path \in ExemptPaths =>
               limiter'.requests = limiter.requests /\ limiter'.admitted = limiter.admitted
          /\ limiter'.last.status = 429 =>
               /\ limiter'.admitted = limiter.admitted
               /\ limiter'.requests[c] = clean(limiter.requests[c], limiter.clock)
               /\ \A o \in Clients \ {c} : limiter'.requests[o] = limiter.requests[o]

\* C30, for every client the requests to limited paths passed on within any
\* 60 seconds are at most the limit; the recorded times are times of
\* requests that were passed on, so a rejected request is not recorded and
\* leaves nothing behind but the purge of expired times; a request to an
\* exempt path is passed on and changes no list; all this with requests
\* still inside call_next while others arrive.
C30_RateLimit == []C30_Windows /\ [][C30_Step]_vars

\* C30, a client at its limit has just been rejected while requests are
\* still inside call_next, and its list holds the admitted times only.
C30_Witness ==
    /\ limiter.last.status = 429
    /\ limiter.in_flight > 0
    /\ Len(limiter.requests[limiter.last.client]) = requests_per_minute
    /\ limiter.clock = 60
    /\ Len(limiter.admitted[limiter.last.client]) > requests_per_minute

====
